---- MODULE Spec2Model ----
(***************************************************************************)
(* Model of the encode-orc analysis and conversion scripts: TBC line       *)
(* addressing (verify_vits.py, verify_ntsc_vits.py, measure_ntsc_phase.py, *)
(* archive/vits-investigation), level conversion, BT.601 colorimetry and   *)
(* the planar-to-YUYV pixel codec (scripts/).                              *)
(*                                                                         *)
(* Every script function is a pure function of its arguments and of the    *)
(* file it reads.  The state is the last call (call), what it returned     *)
(* (ret), the TBC file on disk (tbcLen, its length in bytes) and the file  *)
(* access the call made (io).  ret is always a record; in its fields       *)
(* Python's None is the empty tuple and a value v is <<v>>.                *)
(***************************************************************************)
EXTENDS Integers, Sequences, FiniteSets, TLC

VARIABLES call, ret, tbcLen, io

vars == <<call, ret, tbcLen, io>>

None == << >>
Some(v) == <<v>>

Min(a, b) == IF a <= b THEN a ELSE b
Max(a, b) == IF a >= b THEN a ELSE b

NoCall == [fn |-> "none"]
NoRet == [value |-> None]
NoIo == [offset |-> 0, want |-> 0, got |-> 0]

(***************************************************************************)
(* Bounds of the TBC addressing model.                                     *)
(***************************************************************************)
MaxField == 2
MaxLine == 3
MaxStart == 2
MaxSegLen == 2
MaxFrameLine == 627

(* Frame lines offered to frame_line_to_field_line: both sides of every    *)
(* boundary of the mapping (0|1, 313|314, 625|626) and the VITS lines.     *)
FrameLines == (-1 .. 3) \cup (17 .. 21) \cup (311 .. 316) \cup (330 .. 334)
                \cup (623 .. MaxFrameLine)

(***************************************************************************)
(* TBC geometry constants.                                                 *)
(***************************************************************************)
PAL_FIELD_WIDTH == 1135
PAL_FIELD_HEIGHT == 313
NTSC_FIELD_WIDTH == 910
NTSC_FIELD_HEIGHT == 263

(* Geometries (width, height) handed to read_field_line_segment; they come *)
(* from the capture database, so a small non-standard one is included.     *)
SegmentGeometries == { <<PAL_FIELD_WIDTH, PAL_FIELD_HEIGHT>>,
                       <<NTSC_FIELD_WIDTH, NTSC_FIELD_HEIGHT>>,
                       <<4, 2>> }

(* Lengths in bytes of the TBC file on disk: empty, shorter than one line, *)
(* whole lines, lines cut in the middle (odd and even byte counts), and    *)
(* files reaching into the second and third field of each geometry.        *)
FileLens == { 0, 7, 16, 33, 1820, 2270, 4541, 7000,
              478660 + 3 * 1820, 478660 + 4 * 1820 + 1,
              710510 + 2270, 710510 + 3 * 2270 + 12,
              957320 + 2 * 1820, 1421020 + 4 * 2270 }

(***************************************************************************)
(* File access.  f.seek(offset); f.read(n) on a file of len bytes returns  *)
(* the bytes [offset, offset + n) that exist: fewer than n at end of file. *)
(* data[a:b] on a bytes object of the same length slices the same way.     *)
(***************************************************************************)
FileRead(len, offset, n) ==
    IF offset >= len THEN 0 ELSE Min(n, len - offset)

(***************************************************************************)
(* archive/vits-investigation/verify_vits_lines.py                         *)
(***************************************************************************)
frame_line_to_field_line_off(frame_line, field_num) ==
    IF frame_line < 1 \/ frame_line > 625 THEN None
    ELSE IF frame_line <= 313
         THEN (IF field_num = 0 THEN Some(frame_line - 1) ELSE None)
         ELSE (IF field_num = 1 THEN Some(frame_line - 313) ELSE None)

frame_line_to_field_line_626(frame_line, field_num) ==
    IF frame_line < 1 \/ frame_line > 626 THEN None
    ELSE IF frame_line <= 313
         THEN (IF field_num = 0 THEN Some(frame_line - 1) ELSE None)
         ELSE (IF field_num = 1 THEN Some(frame_line - 314) ELSE None)

frame_line_to_field_line(frame_line, field_num) ==
    IF frame_line < 1 \/ frame_line > 625 THEN None
    ELSE IF frame_line <= 313
         THEN (IF field_num = 0 THEN Some(frame_line - 1) ELSE None)
         ELSE (IF field_num = 1 THEN Some(frame_line - 314) ELSE None)

CallFrameLineToFieldLine ==
    \E L \in FrameLines, f \in 0 .. 1 :
        /\ call' = [fn |-> "frame_line_to_field_line",
                    frame_line |-> L, field_num |-> f]
        /\ ret' = [value |-> frame_line_to_field_line(L, f)]
        /\ io' = NoIo
        /\ UNCHANGED tbcLen

(* The (field, line) pairs verify_vits.py's main block analyses, with the  *)
(* frame line its comments give for each.                                  *)
VerifyVitsMainCalls ==
    { [frame_line |-> 19, field_num |-> 0, line_num |-> 18],
      [frame_line |-> 20, field_num |-> 0, line_num |-> 19],
      [frame_line |-> 332, field_num |-> 1, line_num |-> 18],
      [frame_line |-> 333, field_num |-> 1, line_num |-> 19] }

(***************************************************************************)
(* verify_vits.py / verify_ntsc_vits.py: analyze_line                      *)
(***************************************************************************)
AnalyzeLineOffsetNoScale(width, height, field_num, line_num) ==
    field_num * (width * height) + line_num * width

AnalyzeLineOffset(width, height, field_num, line_num) ==
    (field_num * (width * height) + line_num * width) * 2

AnalyzeLineAlwaysMeasure(width, got) ==
    [status |-> IF got # width * 2 THEN "error" ELSE "ok",
     unpacked |-> got \div 2,
     stats |-> TRUE]

(* After the read: a line of any other length than FIELD_WIDTH * 2 is      *)
(* reported and the function returns; otherwise the line is unpacked and   *)
(* min, max and mean are taken over its FIELD_WIDTH samples.               *)
AnalyzeLineResult(width, got) ==
    IF got # width * 2
    THEN [status |-> "error", unpacked |-> 0, stats |-> FALSE]
    ELSE [status |-> "ok", unpacked |-> width, stats |-> TRUE]

AnalyzeLine(name, width, height) ==
    \E f \in 0 .. MaxField, l \in 0 .. MaxLine :
        LET offset == AnalyzeLineOffset(width, height, f, l)
            got == FileRead(tbcLen, offset, width * 2)
        IN  /\ call' = [fn |-> name, field_num |-> f, line_num |-> l]
            /\ io' = [offset |-> offset, want |-> width * 2, got |-> got]
            /\ ret' = AnalyzeLineResult(width, got)
            /\ UNCHANGED tbcLen

CallAnalyzeLinePAL ==
    AnalyzeLine("verify_vits.analyze_line", PAL_FIELD_WIDTH, PAL_FIELD_HEIGHT)

CallAnalyzeLineNTSC ==
    AnalyzeLine("verify_ntsc_vits.analyze_line", NTSC_FIELD_WIDTH, NTSC_FIELD_HEIGHT)

(***************************************************************************)
(* scripts/measure_ntsc_phase.py: read_field_line_segment                  *)
(***************************************************************************)
SegmentOffsetNoStart(field_idx, line_idx, start, width, height) ==
    (field_idx * (width * height) + line_idx * width) * 2

SegmentOffset(field_idx, line_idx, start, width, height) ==
    (field_idx * (width * height) + line_idx * width + start) * 2

SegmentResultLenient(segment_len, got) ==
    [status |-> "ok", unpacked |-> got \div 2, stats |-> FALSE]

(* A read of any other length raises RuntimeError("short read from TBC     *)
(* file"); otherwise the segment_len samples are returned as a list.       *)
SegmentResult(segment_len, got) ==
    IF got # segment_len * 2
    THEN [status |-> "raise", unpacked |-> 0, stats |-> FALSE]
    ELSE [status |-> "ok", unpacked |-> segment_len, stats |-> FALSE]

CallReadFieldLineSegment ==
    \E f \in 0 .. MaxField, l \in 0 .. MaxLine, s \in 0 .. MaxStart,
       n \in 0 .. MaxSegLen, g \in SegmentGeometries :
        LET offset == SegmentOffset(f, l, s, g[1], g[2])
            got == FileRead(tbcLen, offset, n * 2)
        IN  /\ call' = [fn |-> "read_field_line_segment", field_num |-> f,
                        line_num |-> l, start |-> s, end |-> s + n,
                        width |-> g[1], height |-> g[2]]
            /\ io' = [offset |-> offset, want |-> n * 2, got |-> got]
            /\ ret' = SegmentResult(n, got)
            /\ UNCHANGED tbcLen

(***************************************************************************)
(* archive/vits-investigation/analyze_line19.py: read_tbc_file_line        *)
(***************************************************************************)
ReadTbcFileLineOffset(field_num, line_in_field) ==
    IF field_num = 0
    THEN line_in_field * 1135 * 2
    ELSE (313 * 1135 * 2) + (line_in_field * 1135 * 2)

(* line_data = data[offset:offset + 2270] is whatever part of the line the *)
(* file holds; struct.unpack(f'{len(line_data)//2}H', line_data) returns   *)
(* len/2 samples for an even length and raises struct.error for an odd one *)
ReadTbcFileLineResult(got) ==
    IF got % 2 # 0
    THEN [status |-> "raise", unpacked |-> 0, stats |-> FALSE]
    ELSE [status |-> "ok", unpacked |-> got \div 2, stats |-> FALSE]

CallReadTbcFileLine ==
    \E f \in 0 .. MaxField, l \in 0 .. MaxLine :
        LET offset == ReadTbcFileLineOffset(f, l)
            got == FileRead(tbcLen, offset, 1135 * 2)
        IN  /\ call' = [fn |-> "read_tbc_file_line", field_num |-> f,
                        line_num |-> l]
            /\ io' = [offset |-> offset, want |-> 1135 * 2, got |-> got]
            /\ ret' = ReadTbcFileLineResult(got)
            /\ UNCHANGED tbcLen

(***************************************************************************)
(* Specification of the TBC addressing functions.                          *)
(***************************************************************************)
InitTbc ==
    /\ call = NoCall
    /\ ret = NoRet
    /\ io = NoIo
    /\ tbcLen \in FileLens

NextTbc ==
    \/ CallFrameLineToFieldLine
    \/ CallAnalyzeLinePAL
    \/ CallAnalyzeLineNTSC
    \/ CallReadFieldLineSegment
    \/ CallReadTbcFileLine

SpecTbc == InitTbc /\ [][NextTbc]_vars

(***************************************************************************)
(* verify_ntsc_vits.py: sample_to_ire                                      *)
(*                                                                         *)
(* The function returns a float.  Both quotients are one correctly rounded *)
(* division of an exactly representable integer product by an integer, so  *)
(* the result is the double nearest to num / den; the model keeps the      *)
(* exact fraction (den > 0), which decides the comparisons with 0 and 100  *)
(* exactly.  A division by zero would raise ZeroDivisionError.             *)
(***************************************************************************)
MaxLevel == 3

(* Sample and level values: the smallest ones and the 16-bit levels the    *)
(* scripts use (0x3c00, 0x4000, 0xc100, 0xffff).                           *)
LevelValues == (0 .. MaxLevel) \cup { 15360, 16384, 49408, 65535 }

IreZero == [status |-> "ok", num |-> 0, den |-> 1]

IreDiv(n, d) ==
    IF d = 0 THEN [status |-> "raise", num |-> 0, den |-> 1]
    ELSE IF d < 0 THEN [status |-> "ok", num |-> -n, den |-> -d]
    ELSE [status |-> "ok", num |-> n, den |-> d]

sample_to_ire_white_div(sample, blanking_16b, white_16b) ==
    LET sync_level == 0
    IN  IF sample <= blanking_16b
        THEN LET sync_range == blanking_16b - sync_level
             IN  IF sync_range = 0 THEN IreZero
                 ELSE IreDiv(-43 * (blanking_16b - sample), sync_range)
        ELSE LET luma_range == white_16b
             IN  IF luma_range = 0 THEN IreZero
                 ELSE IreDiv(100 * (sample - blanking_16b), luma_range)

sample_to_ire_no_guard(sample, blanking_16b, white_16b) ==
    LET sync_level == 0
    IN  IF sample <= blanking_16b
        THEN IreDiv(-43 * (blanking_16b - sample), blanking_16b - sync_level)
        ELSE IreDiv(100 * (sample - blanking_16b), white_16b - blanking_16b)

sample_to_ire_sign_slip(sample, blanking_16b, white_16b) ==
    LET sync_level == 0
    IN  IF sample <= blanking_16b
        THEN LET sync_range == blanking_16b - sync_level
             IN  IF sync_range = 0 THEN IreZero
                 ELSE IreDiv(43 * (blanking_16b - sample), sync_range)
        ELSE LET luma_range == white_16b - blanking_16b
             IN  IF luma_range = 0 THEN IreZero
                 ELSE IreDiv(100 * (sample - blanking_16b), luma_range)

sample_to_ire(sample, blanking_16b, white_16b) ==
    LET sync_level == 0
    IN  IF sample <= blanking_16b
        THEN LET sync_range == blanking_16b - sync_level
             IN  IF sync_range = 0 THEN IreZero
                 ELSE IreDiv(-43 * (blanking_16b - sample), sync_range)
        ELSE LET luma_range == white_16b - blanking_16b
             IN  IF luma_range = 0 THEN IreZero
                 ELSE IreDiv(100 * (sample - blanking_16b), luma_range)

CallSampleToIre ==
    \E s \in LevelValues, b \in LevelValues, w \in LevelValues :
        /\ call' = [fn |-> "sample_to_ire", sample |-> s,
                    blanking_16b |-> b, white_16b |-> w]
        /\ ret' = sample_to_ire(s, b, w)
        /\ UNCHANGED <<tbcLen, io>>

InitIre ==
    /\ call = NoCall
    /\ ret = NoRet
    /\ io = NoIo
    /\ tbcLen = 0

NextIre ==
    \/ CallSampleToIre

SpecIre == InitIre /\ [][NextIre]_vars

(***************************************************************************)
(* Byte buffers are sequences of 0..255 (index 1 is Python's byte 0).      *)
(***************************************************************************)
(* data[a:b] *)
Slice(data, a, b) == SubSeq(data, a + 1, Min(b, Len(data)))

(* struct.unpack('<H', data[idx:idx+2])[0] *)
UnpackH(data, idx) == data[idx + 1] + 256 * data[idx + 2]

(* struct.pack('<H', v) *)
PackH(v) == << v % 256, v \div 256 >>

(* struct.pack('<HHHH', a, b, c, d) *)
PackHHHH(a, b, c, d) == PackH(a) \o PackH(b) \o PackH(c) \o PackH(d)

(***************************************************************************)
(* Bounds of the pixel codec model: frame geometry, the number of input    *)
(* patterns and the number of bytes a decoded buffer may fall short by.    *)
(***************************************************************************)
MaxWidth == 4
MaxHeight == 2
MaxSeed == 2
MaxCut == 3

(* The 16-bit word at word index i of input pattern seed.  The words of a  *)
(* buffer differ from one another in their low 10 bits and carry bits      *)
(* above the low 10, so that masking, ordering and plane mix-ups show.     *)
PatternWord(seed, i) == (64 + seed * 20011 + i * 1543) % 65536

PatternBytes(seed, nwords) ==
    [i \in 1 .. (2 * nwords) |-> PackH(PatternWord(seed, (i - 1) \div 2))[2 - (i % 2)]]

(* Bytes a YUV422P10LE frame of the geometry takes: Y, U and V planes. *)
PlanarSize(width, height) ==
    width * height * 2 + 2 * ((width \div 2) * height * 2)

(***************************************************************************)
(* scripts/convert_mov_to_yuv422_ntsc.py and convert_mov_to_yuv422_pal.py: *)
(* convert_yuv422p10le_to_yuyv10bit (the two copies are the same text).    *)
(***************************************************************************)
ConvertPairNoMask(yuv_data, width, height, row, col) ==
    LET y_plane_size == width * height * 2
        u_plane_size == (width \div 2) * height * 2
        y_data == Slice(yuv_data, 0, y_plane_size)
        u_data == Slice(yuv_data, y_plane_size, y_plane_size + u_plane_size)
        v_data == Slice(yuv_data, y_plane_size + u_plane_size,
                        y_plane_size + u_plane_size + u_plane_size)
        y0_idx == (row * width + col) * 2
        y1_idx == (row * width + col + 1) * 2
        c_idx == (row * (width \div 2) + col \div 2) * 2
    IN  IF /\ y0_idx + 2 <= Len(y_data)
           /\ y1_idx + 2 <= Len(y_data)
           /\ c_idx + 2 <= Len(u_data)
           /\ c_idx + 2 <= Len(v_data)
        THEN PackH(UnpackH(y_data, y0_idx)) \o PackH(UnpackH(u_data, c_idx))
             \o PackH(UnpackH(y_data, y1_idx)) \o PackH(UnpackH(v_data, c_idx))
        ELSE PackHHHH(512, 512, 512, 512)

(* The body of the loop for one pixel pair: the 8 bytes it appends. *)
ConvertPair(yuv_data, width, height, row, col) ==
    LET y_plane_size == width * height * 2
        u_plane_size == (width \div 2) * height * 2
        v_plane_size == (width \div 2) * height * 2
        y_data == Slice(yuv_data, 0, y_plane_size)
        u_data == Slice(yuv_data, y_plane_size, y_plane_size + u_plane_size)
        v_data == Slice(yuv_data, y_plane_size + u_plane_size,
                        y_plane_size + u_plane_size + v_plane_size)
        y0_idx == (row * width + col) * 2
        y1_idx == (row * width + col + 1) * 2
        c_idx == (row * (width \div 2) + col \div 2) * 2
    IN  IF /\ y0_idx + 2 <= Len(y_data)
           /\ y1_idx + 2 <= Len(y_data)
           /\ c_idx + 2 <= Len(u_data)
           /\ c_idx + 2 <= Len(v_data)
        THEN PackHHHH(UnpackH(y_data, y0_idx) % 1024,
                      UnpackH(u_data, c_idx) % 1024,
                      UnpackH(y_data, y1_idx) % 1024,
                      UnpackH(v_data, c_idx) % 1024)
        ELSE PackHHHH(512, 512, 512, 512)

(* for col in range(0, width, 2): the first npairs pairs of a row. *)
RECURSIVE ConvertRow(_, _, _, _, _)
ConvertRow(yuv_data, width, height, row, npairs) ==
    IF npairs = 0 THEN << >>
    ELSE ConvertRow(yuv_data, width, height, row, npairs - 1)
         \o ConvertPair(yuv_data, width, height, row, 2 * (npairs - 1))

(* for row in range(height): the first nrows rows. *)
RECURSIVE ConvertRows(_, _, _, _)
ConvertRows(yuv_data, width, height, nrows) ==
    IF nrows = 0 THEN << >>
    ELSE ConvertRows(yuv_data, width, height, nrows - 1)
         \o ConvertRow(yuv_data, width, height, nrows - 1, (width + 1) \div 2)

convert_yuv422p10le_to_yuyv10bit(yuv_data, width, height) ==
    ConvertRows(yuv_data, width, height, height)

(* A decoded buffer: the pattern's bytes, whole, cut short by up to MaxCut *)
(* bytes (never below empty), or two bytes longer than the geometry needs. *)
PlanarBuffers(width, height) ==
    LET full == PlanarSize(width, height)
    IN  { SubSeq(PatternBytes(seed, (full \div 2) + 1), 1, n) :
            seed \in 0 .. MaxSeed,
            n \in { m \in (full - MaxCut) .. full : m >= 0 } \cup { full + 2 } }

ConvertPlanar(name) ==
    \E width \in 1 .. MaxWidth, height \in 1 .. MaxHeight :
        \E yuv_data \in PlanarBuffers(width, height) :
            /\ call' = [fn |-> name, yuv_data |-> yuv_data,
                        width |-> width, height |-> height]
            /\ ret' = [status |-> "ok",
                       data |-> convert_yuv422p10le_to_yuyv10bit(yuv_data, width, height)]
            /\ UNCHANGED <<tbcLen, io>>

CallConvertPlanarNTSC == ConvertPlanar("ntsc.convert_yuv422p10le_to_yuyv10bit")

CallConvertPlanarPAL == ConvertPlanar("pal.convert_yuv422p10le_to_yuyv10bit")

InitCodec ==
    /\ call = NoCall
    /\ ret = NoRet
    /\ io = NoIo
    /\ tbcLen = 0

NextCodec ==
    \/ CallConvertPlanarNTSC
    \/ CallConvertPlanarPAL

SpecCodec == InitCodec /\ [][NextCodec]_vars

(***************************************************************************)
(* IEEE-754 double arithmetic, as Python's float performs it.              *)
(*                                                                         *)
(* rgb_to_ycbcr_bt601 computes in floats and truncates with int(), so its  *)
(* result at a value that is mathematically xxx.5 depends on the rounding  *)
(* of every intermediate operation.  The model therefore carries floats    *)
(* exactly: a float is a sign and a magnitude in units of 2^-120, held as  *)
(* a little-endian sequence of base-2^15 digits (TLC's integers are        *)
(* 32-bit), the first FracLimbs of them the fraction,                      *)
(* and every operation rounds its exact result to 53 significant bits,     *)
(* ties to even.  All values that occur are zero or lie between 2^-60 and  *)
(* 2^30, so no result has bits below 2^-120 and none overflows.            *)
(***************************************************************************)
LimbBase == 2 ^ 15
FracLimbs == 8

ZeroLimbs(n) == [i \in 1 .. n |-> 0]

Limb(a, i) == IF i >= 1 /\ i <= Len(a) THEN a[i] ELSE 0

RECURSIVE BigAddFrom(_, _, _, _, _)
BigAddFrom(a, b, i, n, carry) ==
    IF i > n THEN << >>
    ELSE LET t == Limb(a, i) + Limb(b, i) + carry
         IN  << t % LimbBase >> \o BigAddFrom(a, b, i + 1, n, t \div LimbBase)

BigAdd(a, b) == BigAddFrom(a, b, 1, Max(Len(a), Len(b)) + 1, 0)

(* a - b for a >= b *)
RECURSIVE BigSubFrom(_, _, _, _, _)
BigSubFrom(a, b, i, n, borrow) ==
    IF i > n THEN << >>
    ELSE LET t == Limb(a, i) - Limb(b, i) - borrow
         IN  IF t < 0
             THEN << t + LimbBase >> \o BigSubFrom(a, b, i + 1, n, 1)
             ELSE << t >> \o BigSubFrom(a, b, i + 1, n, 0)

BigSub(a, b) == BigSubFrom(a, b, 1, Max(Len(a), Len(b)), 0)

(* -1, 0, 1 as a < b, a = b, a > b; compared from the top digit down. *)
RECURSIVE BigCmpFrom(_, _, _)
BigCmpFrom(a, b, i) ==
    IF i = 0 THEN 0
    ELSE IF Limb(a, i) > Limb(b, i) THEN 1
    ELSE IF Limb(a, i) < Limb(b, i) THEN -1
    ELSE BigCmpFrom(a, b, i - 1)

BigCmp(a, b) == BigCmpFrom(a, b, Max(Len(a), Len(b)))

(* a * k for one digit k *)
RECURSIVE BigMulSmallFrom(_, _, _, _)
BigMulSmallFrom(a, k, i, carry) ==
    IF i > Len(a) THEN << carry >>
    ELSE LET t == a[i] * k + carry
         IN  << t % LimbBase >> \o BigMulSmallFrom(a, k, i + 1, t \div LimbBase)

RECURSIVE BigMulFrom(_, _, _)
BigMulFrom(a, b, j) ==
    IF j > Len(b) THEN << >>
    ELSE BigAdd(BigMulSmallFrom(a, b[j], 1, 0), << 0 >> \o BigMulFrom(a, b, j + 1))

BigMul(a, b) == BigMulFrom(a, b, 1)

(* Quotient and remainder of a divided by one digit k, top digit first. *)
RECURSIVE BigDivSmallFrom(_, _, _, _)
BigDivSmallFrom(a, k, i, rem) ==
    IF i = 0 THEN [q |-> << >>, r |-> rem]
    ELSE LET t == rem * LimbBase + a[i]
             rest == BigDivSmallFrom(a, k, i - 1, t % k)
         IN  [q |-> rest.q \o << t \div k >>, r |-> rest.r]

BigDivSmall(a, k) == BigDivSmallFrom(a, k, Len(a), 0)

(* Index of the highest non-zero digit, 0 for zero. *)
RECURSIVE TopLimb(_, _)
TopLimb(a, i) == IF i = 0 THEN 0 ELSE IF a[i] # 0 THEN i ELSE TopLimb(a, i - 1)

BitsOf(x) == CHOOSE n \in 0 .. 15 : x < 2 ^ n /\ (n = 0 \/ x >= 2 ^ (n - 1))

BitLen(a) ==
    LET h == TopLimb(a, Len(a))
    IN  IF h = 0 THEN 0 ELSE 15 * (h - 1) + BitsOf(a[h])

(* Bit i (from 0) of a, and whether any bit below bit i is set. *)
Bit(a, i) == (Limb(a, (i \div 15) + 1) \div (2 ^ (i % 15))) % 2

AnyBitBelow(a, i) ==
    \/ \E j \in 1 .. (i \div 15) : Limb(a, j) # 0
    \/ Limb(a, (i \div 15) + 1) % (2 ^ (i % 15)) # 0

ZeroBelow(a, s) ==
    [j \in 1 .. Len(a) |->
        IF j < (s \div 15) + 1 THEN 0
        ELSE IF j = (s \div 15) + 1 THEN a[j] - (a[j] % (2 ^ (s % 15)))
        ELSE a[j]]

Pow2Big(s) ==
    [j \in 1 .. ((s \div 15) + 1) |-> IF j = (s \div 15) + 1 THEN 2 ^ (s % 15) ELSE 0]

(* a (plus a positive amount smaller than one unit when sticky) rounded to *)
(* 53 significant bits, round-half-to-even.                                *)
RoundSig53(a, sticky) ==
    LET L == BitLen(a)
        s == L - 53
    IN  IF L <= 53 THEN a
        ELSE LET up == /\ Bit(a, s - 1) = 1
                       /\ (sticky \/ AnyBitBelow(a, s - 1) \/ Bit(a, s) = 1)
                 trunc == ZeroBelow(a, s)
             IN  IF up THEN BigAdd(trunc, Pow2Big(s)) ELSE trunc

(* The digits of a without its leading zeros, at least n of them. *)
Trim(a, n) == [j \in 1 .. Max(n, TopLimb(a, Len(a))) |-> Limb(a, j)]

DropLimbs(a, n) == SubSeq(a, n + 1, Len(a))

Abs(n) == IF n < 0 THEN -n ELSE n

(* float(n) for an integer below 2^30 in magnitude *)
FFromInt(n) ==
    [neg |-> n < 0,
     mag |-> ZeroLimbs(FracLimbs) \o << Abs(n) % LimbBase, Abs(n) \div LimbBase >>]

(* n / d for integers: the double nearest to the quotient.  The quotient   *)
(* is taken with 15 more fraction bits and a sticky remainder.             *)
FDivInt(n, d) ==
    LET qr == BigDivSmall(ZeroLimbs(FracLimbs + 1)
                              \o << Abs(n) % LimbBase, Abs(n) \div LimbBase >>, Abs(d))
    IN  [neg |-> (n < 0) # (d < 0) /\ n # 0,
         mag |-> Trim(DropLimbs(RoundSig53(qr.q, qr.r # 0), 1), FracLimbs + 1)]

FNeg(x) == [neg |-> ~x.neg, mag |-> x.mag]

FMul(x, y) ==
    [neg |-> x.neg # y.neg,
     mag |-> Trim(DropLimbs(RoundSig53(BigMul(x.mag, y.mag), FALSE), FracLimbs),
                  FracLimbs + 1)]

FRound(neg, mag) == [neg |-> neg, mag |-> Trim(RoundSig53(mag, FALSE), FracLimbs + 1)]

FAdd(x, y) ==
    IF x.neg = y.neg
    THEN FRound(x.neg, BigAdd(x.mag, y.mag))
    ELSE LET c == BigCmp(x.mag, y.mag)
         IN  IF c = 0 THEN FRound(FALSE, << 0 >>)
             ELSE IF c > 0 THEN FRound(x.neg, BigSub(x.mag, y.mag))
             ELSE FRound(y.neg, BigSub(y.mag, x.mag))

FSub(x, y) == FAdd(x, FNeg(y))

(* int(x): the integer part, truncated toward zero. *)
FInt(x) ==
    LET n == Limb(x.mag, FracLimbs + 1) + LimbBase * Limb(x.mag, FracLimbs + 2)
    IN  IF x.neg THEN -n ELSE n

(***************************************************************************)
(* scripts/generate_pal_yuv422_colorbars.py: rgb_to_ycbcr_bt601.           *)
(***************************************************************************)
(* The float literals of the function: the doubles nearest to the decimal  *)
(* fractions, which are written here in lowest terms.                      *)
F0_299 == FDivInt(299, 1000)
F0_587 == FDivInt(587, 1000)
F0_114 == FDivInt(114, 1000)
F0_168736 == FDivInt(5273, 31250)
F0_331264 == FDivInt(5176, 15625)
F0_5 == FDivInt(1, 2)
F0_418688 == FDivInt(6542, 15625)
F0_081312 == FDivInt(2541, 31250)

(* (v10 - 64) / (940 - 64) *)
Norm(v10) == FDivInt(v10 - 64, 940 - 64)

(* 0.299 * r_norm + 0.587 * g_norm + 0.114 * b_norm *)
YNorm(r_norm, g_norm, b_norm) ==
    FAdd(FAdd(FMul(F0_299, r_norm), FMul(F0_587, g_norm)), FMul(F0_114, b_norm))

CbNormSignSlip(r_norm, g_norm, b_norm) ==
    FAdd(FAdd(FMul(FNeg(F0_168736), r_norm), FMul(F0_331264, g_norm)),
         FMul(F0_5, b_norm))

(* -0.168736 * r_norm - 0.331264 * g_norm + 0.5 * b_norm *)
CbNorm(r_norm, g_norm, b_norm) ==
    FAdd(FSub(FMul(FNeg(F0_168736), r_norm), FMul(F0_331264, g_norm)),
         FMul(F0_5, b_norm))

(* 0.5 * r_norm - 0.418688 * g_norm - 0.081312 * b_norm *)
CrNorm(r_norm, g_norm, b_norm) ==
    FSub(FSub(FMul(F0_5, r_norm), FMul(F0_418688, g_norm)),
         FMul(F0_081312, b_norm))

(* int(base + norm * span + 0.5) *)
Scale(base, norm, span) ==
    FInt(FAdd(FAdd(FFromInt(base), FMul(norm, FFromInt(span))), F0_5))

rgb_to_ycbcr_bt601(r10, g10, b10) ==
    LET r_norm == Norm(r10)
        g_norm == Norm(g10)
        b_norm == Norm(b10)
        y == Scale(64, YNorm(r_norm, g_norm, b_norm), 940 - 64)
        cb == Scale(512, CbNorm(r_norm, g_norm, b_norm), 960 - 64)
        cr == Scale(512, CrNorm(r_norm, g_norm, b_norm), 960 - 64)
    IN  << Max(64, Min(940, y)), Max(64, Min(960, cb)), Max(64, Min(960, cr)) >>

(***************************************************************************)
(* Channel levels the conversion is applied to: an even grid over the      *)
(* nominal range 64..940 with both ends, and the levels of two colours     *)
(* whose exact luma lands on a half: (64, 218, 907) and (356, 98, 645).    *)
(***************************************************************************)
MaxColorStep == 4

ColorLevels ==
    { 64 + ((940 - 64) \div MaxColorStep) * k : k \in 0 .. MaxColorStep }
        \cup { 64, 940 } \cup { 98, 218, 356, 645, 907 }

InitColor ==
    /\ \E r10 \in ColorLevels, g10 \in ColorLevels, b10 \in ColorLevels :
           call = [fn |-> "rgb_to_ycbcr_bt601", r10 |-> r10, g10 |-> g10, b10 |-> b10]
    /\ ret = NoRet
    /\ io = NoIo
    /\ tbcLen = 0

CallRgbToYcbcrBt601 ==
    /\ call.fn = "rgb_to_ycbcr_bt601"
    /\ ret = NoRet
    /\ ret' = [value |-> rgb_to_ycbcr_bt601(call.r10, call.g10, call.b10)]
    /\ UNCHANGED <<call, tbcLen, io>>

NextColor == CallRgbToYcbcrBt601

SpecColor == InitColor /\ [][NextColor]_vars

(***************************************************************************)
(* scripts/convert_mov_to_yuv422_pal.py: convert_v210_to_yuyv10bit.        *)
(***************************************************************************)
(* (dw >> shift) & 0x3FF for the little-endian 32-bit word number word of  *)
(* a 16-byte group and shift 0, 10 or 20.  The word is held as its two     *)
(* 16-bit halves, dw = lo + 65536 * hi, because it may exceed 2^31 - 1.    *)
V210Field(group, word, shift) ==
    LET lo == group[4 * word + 1] + 256 * group[4 * word + 2]
        hi == group[4 * word + 3] + 256 * group[4 * word + 4]
    IN  IF shift = 0 THEN lo % 1024
        ELSE IF shift = 10 THEN ((lo \div 1024) + 64 * hi) % 1024
        ELSE (hi \div 16) % 1024

V210GroupPairsUyvy(group) ==
    LET y0 == V210Field(group, 0, 0)
        cb0 == V210Field(group, 0, 10)
        cr0 == V210Field(group, 0, 20)
        y1 == V210Field(group, 1, 0)
        cb2 == V210Field(group, 1, 10)
        y2 == V210Field(group, 1, 20)
        cr2 == V210Field(group, 2, 0)
        y3 == V210Field(group, 2, 10)
        cb4 == V210Field(group, 2, 20)
        y4 == V210Field(group, 3, 0)
        cr4 == V210Field(group, 3, 10)
        y5 == V210Field(group, 3, 20)
    IN  << PackHHHH(y0, cb0, y1, cr0), PackHHHH(y2, cb2, y3, cr2),
           PackHHHH(y4, cb4, y5, cr4) >>

(* The three pixel pairs a 16-byte group holds, each as its 8 output bytes. *)
V210GroupPairs(group) ==
    LET cb0 == V210Field(group, 0, 0)
        y0 == V210Field(group, 0, 10)
        cr0 == V210Field(group, 0, 20)
        y1 == V210Field(group, 1, 0)
        cb2 == V210Field(group, 1, 10)
        y2 == V210Field(group, 1, 20)
        cr2 == V210Field(group, 2, 0)
        y3 == V210Field(group, 2, 10)
        cb4 == V210Field(group, 2, 20)
        y4 == V210Field(group, 3, 0)
        cr4 == V210Field(group, 3, 10)
        y5 == V210Field(group, 3, 20)
    IN  << PackHHHH(y0, cb0, y1, cr0), PackHHHH(y2, cb2, y3, cr2),
           PackHHHH(y4, cb4, y5, cr4) >>

(* ((width + 47) // 48) * 128 *)
V210LineSize(width) == ((width + 47) \div 48) * 128

RECURSIVE V210RowNoStop(_, _, _, _, _)
V210RowNoStop(v210_data, width, v210_line_start, col, byte_offset) ==
    IF ~(col < width) THEN [data |-> << >>, reads |-> << >>]
    ELSE LET line_offset == v210_line_start + byte_offset
         IN  IF line_offset + 16 <= Len(v210_data)
             THEN LET pairs == V210GroupPairs(Slice(v210_data, line_offset, line_offset + 16))
                      rest == V210RowNoStop(v210_data, width, v210_line_start, col + 6,
                                            byte_offset + 16)
                  IN  [data |-> pairs[1] \o pairs[2] \o pairs[3] \o rest.data,
                       reads |-> << line_offset >> \o rest.reads]
             ELSE [data |-> << >>, reads |-> << >>]

(* The while loop of one row from (col, byte_offset) on: the bytes it      *)
(* appends and the offsets of the groups it slices out of the buffer.      *)
RECURSIVE V210Row(_, _, _, _, _)
V210Row(v210_data, width, v210_line_start, col, byte_offset) ==
    IF ~(col < width) THEN [data |-> << >>, reads |-> << >>]
    ELSE LET line_offset == v210_line_start + byte_offset
         IN  IF line_offset + 16 <= Len(v210_data)
             THEN LET pairs == V210GroupPairs(Slice(v210_data, line_offset, line_offset + 16))
                      out1 == IF col < width THEN pairs[1] ELSE << >>
                      col1 == IF col < width THEN col + 2 ELSE col
                      out2 == IF col1 < width THEN pairs[2] ELSE << >>
                      col2 == IF col1 < width THEN col1 + 2 ELSE col1
                      out3 == IF col2 < width THEN pairs[3] ELSE << >>
                      col3 == IF col2 < width THEN col2 + 2 ELSE col2
                      rest == V210Row(v210_data, width, v210_line_start, col3,
                                      byte_offset + 16)
                  IN  [data |-> out1 \o out2 \o out3 \o rest.data,
                       reads |-> << line_offset >> \o rest.reads]
             ELSE [data |-> << >>, reads |-> << >>]

(* for row in range(height): rows row .. height-1.  reads[i] is the        *)
(* sequence of group offsets read for row row + i - 1.                     *)
RECURSIVE V210Rows(_, _, _, _)
V210Rows(v210_data, width, height, row) ==
    IF row >= height THEN [data |-> << >>, reads |-> << >>]
    ELSE LET this == V210Row(v210_data, width, row * V210LineSize(width), 0, 0)
             rest == V210Rows(v210_data, width, height, row + 1)
         IN  [data |-> this.data \o rest.data,
              reads |-> << this.reads >> \o rest.reads]

convert_v210_to_yuyv10bit(v210_data, width, height) ==
    V210Rows(v210_data, width, height, 0).data

(***************************************************************************)
(* v210 buffers handed to the converter.                                   *)
(***************************************************************************)
(* struct.pack('<I', a | b << 10 | c << 20): one v210 word of three fields *)
PackV210Word(a, b, c) ==
    LET v == a + 1024 * b + 1048576 * c
    IN  << v % 256, (v \div 256) % 256, (v \div 65536) % 256, v \div 16777216 >>

(* Sample x of row r of each plane of a planar frame, 0 beyond the row. *)
PlaneY(planar, w, h, r, x) ==
    IF x < w THEN UnpackH(planar, 2 * (r * w + x)) % 1024 ELSE 0

PlaneCb(planar, w, h, r, k) ==
    IF k < w \div 2 THEN UnpackH(planar, 2 * (w * h + r * (w \div 2) + k)) % 1024 ELSE 0

PlaneCr(planar, w, h, r, k) ==
    IF k < w \div 2
    THEN UnpackH(planar, 2 * (w * h + (w \div 2) * h + r * (w \div 2) + k)) % 1024
    ELSE 0

(* Group g of row r: pixels 6g .. 6g+5 in the component order of the format *)
PackV210Group(planar, w, h, r, g) ==
    PackV210Word(PlaneCb(planar, w, h, r, 3 * g), PlaneY(planar, w, h, r, 6 * g),
                 PlaneCr(planar, w, h, r, 3 * g))
    \o PackV210Word(PlaneY(planar, w, h, r, 6 * g + 1), PlaneCb(planar, w, h, r, 3 * g + 1),
                    PlaneY(planar, w, h, r, 6 * g + 2))
    \o PackV210Word(PlaneCr(planar, w, h, r, 3 * g + 1), PlaneY(planar, w, h, r, 6 * g + 3),
                    PlaneCb(planar, w, h, r, 3 * g + 2))
    \o PackV210Word(PlaneY(planar, w, h, r, 6 * g + 4), PlaneCr(planar, w, h, r, 3 * g + 2),
                    PlaneY(planar, w, h, r, 6 * g + 5))

RECURSIVE PackV210Groups(_, _, _, _, _)
PackV210Groups(planar, w, h, r, ngroups) ==
    IF ngroups = 0 THEN << >>
    ELSE PackV210Groups(planar, w, h, r, ngroups - 1)
         \o PackV210Group(planar, w, h, r, ngroups - 1)

(* The v210 frame of a planar frame: every row is V210LineSize(w) bytes. *)
RECURSIVE PackV210(_, _, _, _)
PackV210(planar, w, h, nrows) ==
    IF nrows = 0 THEN << >>
    ELSE PackV210(planar, w, h, nrows - 1)
         \o PackV210Groups(planar, w, h, nrows - 1, V210LineSize(w) \div 16)

(* Widths that take one group, part of a group, several groups, and more   *)
(* than one 48-pixel stride unit.                                          *)
V210Widths == (1 .. MaxWidth) \cup { 6, 8, 50 }

(* The planar frame of a pattern: exactly the bytes of the geometry. *)
PlanarFrame(seed, width, height) ==
    PatternBytes(seed, PlanarSize(width, height) \div 2)

V210Buffers(width, height) ==
    LET full == V210LineSize(width) * height
    IN  { SubSeq(PatternBytes(seed, (full \div 2) + 1), 1, n) :
            seed \in 0 .. MaxSeed,
            n \in { full, full + 2 } \cup { full - c : c \in 1 .. MaxCut }
                  \cup { 16 * c + 8 : c \in 0 .. MaxCut } }
        \cup { PackV210(PlanarFrame(seed, width, height), width, height, height) :
                 seed \in { s \in 0 .. MaxSeed : width % 2 = 0 } }

InitV210 ==
    /\ \E width \in V210Widths, height \in 1 .. MaxHeight :
         \E v210_data \in V210Buffers(width, height) :
             call = [fn |-> "convert_v210_to_yuyv10bit", v210_data |-> v210_data,
                     width |-> width, height |-> height]
    /\ ret = NoRet
    /\ io = NoIo
    /\ tbcLen = 0

CallConvertV210 ==
    /\ call.fn = "convert_v210_to_yuyv10bit"
    /\ ret = NoRet
    /\ ret' = [status |-> "ok",
               data |-> convert_v210_to_yuyv10bit(call.v210_data, call.width, call.height),
               reads |-> V210Rows(call.v210_data, call.width, call.height, 0).reads]
    /\ UNCHANGED <<call, tbcLen, io>>

NextV210 == CallConvertV210

SpecV210 == InitV210 /\ [][NextV210]_vars

(***************************************************************************)
(* scripts/convert_mov_to_yuv422_ntsc.py: pad_to_target_width, and         *)
(* scripts/convert_mov_to_yuv422_pal.py: pad_to_720_width.                 *)
(***************************************************************************)
(* struct.pack('<HHHH', 64, 512, 64, 512) *)
neutral_pair == PackHHHH(64, 512, 64, 512)

(* data * n for a bytes value *)
Repeat(data, n) ==
    IF n <= 0 \/ Len(data) = 0 THEN << >>
    ELSE [i \in 1 .. (n * Len(data)) |-> data[((i - 1) % Len(data)) + 1]]

LeftPairsRoundedUp(pairs_to_add) == (pairs_to_add + 1) \div 2

(* left_pairs = pairs_to_add // 2 *)
LeftPairs(pairs_to_add) == pairs_to_add \div 2

(* for line_idx in range(height): the lines line_idx .. height-1 *)
RECURSIVE PadLines(_, _, _, _, _, _)
PadLines(yuyv_data, line_size, left_pad, right_pad, height, line_idx) ==
    IF line_idx >= height THEN << >>
    ELSE LET line_start == line_idx * line_size
             line_end == line_start + line_size
             line_data == Slice(yuyv_data, line_start, line_end)
         IN  left_pad \o line_data \o right_pad
             \o PadLines(yuyv_data, line_size, left_pad, right_pad, height, line_idx + 1)

(* The common body of the two routines once the width test has passed;     *)
(* they differ in how line_size is computed.                               *)
PadBody(yuyv_data, line_size, pixels_to_add, height) ==
    LET pairs_to_add == pixels_to_add \div 2
        left_pairs == LeftPairs(pairs_to_add)
        right_pairs == pairs_to_add - left_pairs
    IN  PadLines(yuyv_data, line_size, Repeat(neutral_pair, left_pairs),
                 Repeat(neutral_pair, right_pairs), height, 0)

pad_to_target_width(yuyv_data, current_width, target_width, height) ==
    IF current_width >= target_width THEN yuyv_data
    ELSE PadBody(yuyv_data, current_width * 4, target_width - current_width, height)

PAL_TARGET_WIDTH == 720

pad_to_720_width(yuyv_data, width, height) ==
    IF width >= 720 THEN yuyv_data
    ELSE PadBody(yuyv_data, (width \div 2) * 8, PAL_TARGET_WIDTH - width, height)

(* How far a target width may exceed, and a PAL width fall short of, the   *)
(* widths of the codec model.                                              *)
MaxPad == 4

(* YUYV buffers: the pattern's bytes for the geometry, whole, cut short or *)
(* two bytes longer.                                                       *)
YuyvBuffers(width, height) ==
    LET full == width * height * 4
    IN  { SubSeq(PatternBytes(seed, (full \div 2) + 1), 1, n) :
            seed \in 0 .. MaxSeed,
            n \in { m \in (full - MaxCut) .. full : m >= 0 } \cup { full + 2 } }

PadCalls ==
    UNION { { [fn |-> "pad_to_target_width", yuyv_data |-> yuyv_data,
               current_width |-> current_width, target_width |-> target_width,
               height |-> height] :
                yuyv_data \in YuyvBuffers(current_width, height),
                target_width \in 1 .. (MaxWidth + MaxPad) } :
            current_width \in 1 .. MaxWidth, height \in 1 .. MaxHeight }

Pad720Calls ==
    UNION { { [fn |-> "pad_to_720_width", yuyv_data |-> yuyv_data,
               width |-> width, height |-> height] :
                yuyv_data \in YuyvBuffers(width, height) } :
            width \in (PAL_TARGET_WIDTH - MaxPad) .. (PAL_TARGET_WIDTH + 1),
            height \in 1 .. MaxHeight }

InitPad ==
    /\ call \in PadCalls \cup Pad720Calls
    /\ ret = NoRet
    /\ io = NoIo
    /\ tbcLen = 0

CallPadToTargetWidth ==
    /\ call.fn = "pad_to_target_width"
    /\ ret = NoRet
    /\ ret' = [status |-> "ok",
               data |-> pad_to_target_width(call.yuyv_data, call.current_width,
                                            call.target_width, call.height)]
    /\ UNCHANGED <<call, tbcLen, io>>

CallPadTo720Width ==
    /\ call.fn = "pad_to_720_width"
    /\ ret = NoRet
    /\ ret' = [status |-> "ok",
               data |-> pad_to_720_width(call.yuyv_data, call.width, call.height)]
    /\ UNCHANGED <<call, tbcLen, io>>

NextPad ==
    \/ CallPadToTargetWidth
    \/ CallPadTo720Width

SpecPad == InitPad /\ [][NextPad]_vars

(***************************************************************************)
(* scripts/convert_mov_to_yuv422_ntsc.py: the height adjustment of         *)
(* extract_frame_to_yuv422, applied to the frame the width step leaves.    *)
(***************************************************************************)
AdjustHeightPadFirst(yuyv_packed, actual_height, target_width, target_height) ==
    IF actual_height # target_height
    THEN IF actual_height > target_height
         THEN Slice(yuyv_packed, 0, target_height * (target_width * 2 * 2))
         ELSE Repeat(Repeat(neutral_pair, target_width \div 2),
                     target_height - actual_height) \o yuyv_packed
    ELSE yuyv_packed

AdjustHeight(yuyv_packed, actual_height, target_width, target_height) ==
    IF actual_height # target_height
    THEN IF actual_height > target_height
         THEN LET line_size == target_width * 2 * 2
              IN  Slice(yuyv_packed, 0, target_height * line_size)
         ELSE LET black_line == Repeat(neutral_pair, target_width \div 2)
                  lines_to_add == target_height - actual_height
              IN  yuyv_packed \o Repeat(black_line, lines_to_add)
    ELSE yuyv_packed

(* Frames reaching the height step: after the width step their lines are   *)
(* target_width pixels wide, or wider when the input was wider than the    *)
(* target and nothing was padded.                                          *)
AdjustHeightCalls ==
    UNION { { [fn |-> "extract_frame_to_yuv422.adjust_height",
               yuyv_packed |-> yuyv_packed, width |-> width,
               actual_height |-> actual_height,
               target_width |-> target_width, target_height |-> target_height] :
                yuyv_packed \in YuyvBuffers(width, actual_height),
                target_width \in 1 .. width,
                target_height \in 1 .. (MaxHeight + 1) } :
            width \in 1 .. MaxWidth, actual_height \in 1 .. (MaxHeight + 1) }

InitHeight ==
    /\ call \in AdjustHeightCalls
    /\ ret = NoRet
    /\ io = NoIo
    /\ tbcLen = 0

CallAdjustHeight ==
    /\ call.fn = "extract_frame_to_yuv422.adjust_height"
    /\ ret = NoRet
    /\ ret' = [status |-> "ok",
               data |-> AdjustHeight(call.yuyv_packed, call.actual_height,
                                     call.target_width, call.target_height)]
    /\ UNCHANGED <<call, tbcLen, io>>

NextHeight == CallAdjustHeight

SpecHeight == InitHeight /\ [][NextHeight]_vars

(***************************************************************************)
(* archive/vits-investigation/analyze_line19.py: analyze_line19.           *)
(*                                                                         *)
(* What the analysis does with a line depends on the number of samples it  *)
(* is given, not on their values: a line is carried as its length, and a   *)
(* slice s[a:b] as the index range [start, end) it selects from s.         *)
(***************************************************************************)
(* s[a:b] for a sequence of n items and 0 <= a *)
SliceRange(n, a, b) == [start |-> Min(a, n), end |-> Max(Min(a, n), Min(b, n))]

RangeLen(rng) == rng.end - rng.start

blanking_level == 16384
white_level == 53248
active_start == 185
active_end == 1107

Line19SegmentsSwapped(alen) ==
    LET b2_end == 92
        b1_end == b2_end + 36
        f_end == b1_end + 4
        d1_start == f_end
    IN  [b2 |-> SliceRange(alen, 0, b2_end),
         b1 |-> SliceRange(alen, b2_end, b1_end),
         f |-> SliceRange(alen, b1_end, f_end),
         d1 |-> SliceRange(alen, d1_start, alen)]

(* b2_samples, b1_samples, f_samples and d1_samples as ranges of an active *)
(* region of alen samples.                                                 *)
Line19Segments(alen) ==
    LET b2_end == 92
        b1_end == b2_end + 4
        f_end == b1_end + 36
        d1_start == f_end
    IN  [b2 |-> SliceRange(alen, 0, b2_end),
         b1 |-> SliceRange(alen, b2_end, b1_end),
         f |-> SliceRange(alen, b1_end, f_end),
         d1 |-> SliceRange(alen, d1_start, alen)]

LevelBandEqual(n, level) ==
    LET level_height == n \div 6
        start == level * level_height
    IN  SliceRange(n, start, start + level_height)

(* level_samples of one pass of the level loop, as a range of d1_samples   *)
(* of n samples.                                                           *)
LevelBand(n, level) ==
    LET level_height == n \div 6
        start == level * level_height
        end == IF level < 5 THEN start + level_height ELSE n
    IN  SliceRange(n, start, end)

ExpectedLevelRounded(level) ==
    FInt(FAdd(FAdd(FFromInt(blanking_level),
                   FDivInt((white_level - blanking_level) * level, 5)), F0_5))

(* int(blanking_level + (white_level - blanking_level) * level / 5) *)
ExpectedLevel(level) ==
    FInt(FAdd(FFromInt(blanking_level),
              FDivInt((white_level - blanking_level) * level, 5)))

(* The level loop: for each level its band and, when the band is not       *)
(* empty, the expected level printed for it.                               *)
Line19Levels(n) ==
    [i \in 1 .. 6 |->
        LET band == LevelBand(n, i - 1)
        IN  [start |-> band.start, end |-> band.end,
             expected |-> IF RangeLen(band) > 0 THEN Some(ExpectedLevel(i - 1)) ELSE None]]

(* min() and max() of an empty slice raise ValueError: the analysis ends   *)
(* there with nothing returned.                                            *)
analyze_line19(nsamples) ==
    LET active == SliceRange(nsamples, active_start, active_end)
        seg == Line19Segments(RangeLen(active))
    IN  IF \/ RangeLen(active) = 0
           \/ RangeLen(seg.b2) = 0
           \/ RangeLen(seg.b1) = 0
           \/ RangeLen(seg.f) = 0
           \/ RangeLen(seg.d1) = 0
        THEN [status |-> "raise", active |-> active, segments |-> seg, levels |-> << >>]
        ELSE [status |-> "ok", active |-> active, segments |-> seg,
              levels |-> Line19Levels(RangeLen(seg.d1))]

(* Line lengths handed to the analysis: full lines, and lines that the     *)
(* reader cut short at the end of the file, around every segment boundary  *)
(* and with every D1 length up to MaxD1.                                   *)
MaxD1 == 40

Line19Lengths ==
    { 0, 184, 185, 186, 276, 277, 278, 280, 281, 282, 316, 1106, 1107, 1134, 1135 }
        \cup { 317 + n : n \in 0 .. MaxD1 }

InitLine19 ==
    /\ \E nsamples \in Line19Lengths : call = [fn |-> "analyze_line19", nsamples |-> nsamples]
    /\ ret = NoRet
    /\ io = NoIo
    /\ tbcLen = 0

CallAnalyzeLine19 ==
    /\ call.fn = "analyze_line19"
    /\ ret = NoRet
    /\ ret' = analyze_line19(call.nsamples)
    /\ UNCHANGED <<call, tbcLen, io>>

NextLine19 == CallAnalyzeLine19

SpecLine19 == InitLine19 /\ [][NextLine19]_vars

(***************************************************************************)
(* scripts/measure_ntsc_phase.py: measure_phase.                           *)
(*                                                                         *)
(* The correlation against math.sin and math.cos and the math.atan2 of the *)
(* sums are the C library's: for the segments of the model the float       *)
(* phi * 180.0 / math.pi that the function reaches is tabulated, with      *)
(* blanking_ire = 16384, fsc = 315.0e6 / 88.0 and sample_rate = 4 * fsc    *)
(* (omega = pi/2 as a float).  mag is the magnitude in the float model's   *)
(* digits.  The arithmetic that follows is modelled operation by           *)
(* operation.                                                              *)
(***************************************************************************)
PhaseTable ==
    {
      [segment |-> << 16384, 16384, 15000 >>, neg |-> TRUE,
       mag |-> << 0, 11744, 16106, 23430, 8089, 0, 0, 0, 0 >>],
      [segment |-> << 17384, 16384, 15000 >>, neg |-> TRUE,
       mag |-> << 0, 8576, 23205, 12392, 4696, 0, 0, 0, 0 >>],
      [segment |-> << 18384, 16384, 15000 >>, neg |-> TRUE,
       mag |-> << 0, 21504, 10150, 18336, 3308, 0, 0, 0, 0 >>],
      [segment |-> << 15000, 15000, 17384, 15000, 17384 >>, neg |-> TRUE,
       mag |-> << 0, 0, 0, 0, 0, 0, 0, 0, 180 >>],
      [segment |-> << 15000, 16384, 17384, 17384, 15000 >>, neg |-> TRUE,
       mag |-> << 0, 0, 0, 0, 0, 26628, 30299, 4480, 165 >>],
      [segment |-> << 15000, 15000, 18384 >>, neg |-> TRUE,
       mag |-> << 0, 0, 0, 0, 0, 6865, 27009, 24780, 157 >>],
      [segment |-> << 15000, 17384, 15000, 17384 >>, neg |-> TRUE,
       mag |-> << 0, 0, 0, 0, 0, 1918, 24158, 8105, 148 >>],
      [segment |-> << 15000, 16384, 17384, 18384 >>, neg |-> TRUE,
       mag |-> << 0, 0, 0, 0, 0, 1452, 3968, 191, 140 >>],
      [segment |-> << 16384, 15000, 18384, 17384 >>, neg |-> TRUE,
       mag |-> << 0, 0, 0, 0, 0, 31317, 28799, 32576, 129 >>],
      [segment |-> << 15000, 16384, 16384, 18384 >>, neg |-> TRUE,
       mag |-> << 0, 0, 0, 0, 0, 28653, 7251, 22388, 124 >>],
      [segment |-> << 16384, 15000, 17384, 17384 >>, neg |-> TRUE,
       mag |-> << 0, 0, 0, 0, 16384, 6864, 27009, 24780, 112 >>],
      [segment |-> << 17384, 15000, 16384, 16384, 15000 >>, neg |-> TRUE,
       mag |-> << 0, 0, 0, 0, 0, 15607, 9807, 16614, 105 >>],
      [segment |-> << 15000, 15000, 15000 >>, neg |-> TRUE,
       mag |-> << 0, 0, 0, 0, 0, 0, 0, 0, 90 >>],
      [segment |-> << 18384, 16384, 16384, 18384, 15000 >>, neg |-> TRUE,
       mag |-> << 0, 0, 0, 0, 0, 8998, 3343, 28874, 72 >>],
      [segment |-> << 17384, 16384, 16384, 18384 >>, neg |-> TRUE,
       mag |-> << 0, 0, 0, 0, 24576, 15431, 13206, 14252, 63 >>],
      [segment |-> << 18384, 17384, 16384, 18384, 15000 >>, neg |-> TRUE,
       mag |-> << 0, 0, 0, 0, 16384, 4746, 19171, 12023, 58 >>],
      [segment |-> << 17384, 15000 >>, neg |-> TRUE,
       mag |-> << 0, 0, 0, 0, 24576, 29296, 20122, 4923, 54 >>],
      [segment |-> << 17384, 15000, 16384, 18384, 18384 >>, neg |-> TRUE,
       mag |-> << 0, 0, 0, 0, 0, 22287, 16727, 14490, 48 >>],
      [segment |-> << 18384, 15000, 16384, 18384, 18384 >>, neg |-> TRUE,
       mag |-> << 0, 0, 0, 0, 24576, 1085, 21351, 7576, 40 >>],
      [segment |-> << 16384, 16384, 15000, 17384 >>, neg |-> TRUE,
       mag |-> << 0, 0, 0, 0, 24576, 3471, 12645, 27844, 35 >>],
      [segment |-> << 17384, 16384, 16384, 18384, 18384 >>, neg |-> TRUE,
       mag |-> << 0, 0, 0, 0, 0, 941, 4348, 22612, 33 >>],
      [segment |-> << 17384, 15000, 15000, 17384, 18384 >>, neg |-> TRUE,
       mag |-> << 0, 0, 0, 0, 20480, 4806, 15093, 17601, 28 >>],
      [segment |-> << 18384, 16384, 15000, 17384, 15000 >>, neg |-> TRUE,
       mag |-> << 0, 0, 0, 0, 12288, 17336, 19561, 18515, 26 >>],
      [segment |-> << 17384, 16384, 15000, 17384 >>, neg |-> TRUE,
       mag |-> << 0, 0, 0, 0, 0, 6864, 27009, 24780, 22 >>],
      [segment |-> << 18384, 16384, 17384, 17384, 18384 >>, neg |-> TRUE,
       mag |-> << 0, 0, 0, 0, 24576, 15431, 13206, 14252, 18 >>],
      [segment |-> << 18384, 17384, 15000, 18384 >>, neg |-> TRUE,
       mag |-> << 0, 0, 0, 0, 28672, 27961, 17674, 15166, 16 >>],
      [segment |-> << 18384, 16384, 15000, 17384, 17384 >>, neg |-> TRUE,
       mag |-> << 0, 0, 0, 0, 12288, 29111, 23803, 27834, 12 >>],
      [segment |-> << 15000, 18384, 15000, 18384, 17384 >>, neg |-> TRUE,
       mag |-> << 0, 14848, 13044, 5731, 31199, 0, 0, 0, 0 >>],
      [segment |-> << 15000, 18384, 15000, 18384, 18384 >>, neg |-> TRUE,
       mag |-> << 0, 19072, 6244, 9912, 23689, 0, 0, 0, 0 >>],
      [segment |-> << 16384, 15000, 17384, 15000, 18384 >>, neg |-> TRUE,
       mag |-> << 0, 23040, 18057, 3779, 17339, 0, 0, 0, 0 >>],
      [segment |-> << 17384, 17384, 17384, 17384, 18384 >>, neg |-> TRUE,
       mag |-> << 0, 25664, 12428, 16183, 12424, 0, 0, 0, 0 >>],
      [segment |-> << 17384, 15000, 15000, 15000, 18384 >>, neg |-> TRUE,
       mag |-> << 0, 23552, 4044, 5359, 10807, 0, 0, 0, 0 >>],
      [segment |-> << 17384, 17384, 15000, 17384, 18384 >>, neg |-> TRUE,
       mag |-> << 0, 20736, 2792, 4758, 9094, 0, 0, 0, 0 >>],
      [segment |-> << 18384, 17384, 15000, 17384, 18384 >>, neg |-> TRUE,
       mag |-> << 0, 15104, 26180, 1293, 7405, 0, 0, 0, 0 >>],
      [segment |-> << 18384, 15000, 17384, 15000, 18384 >>, neg |-> TRUE,
       mag |-> << 0, 7680, 6019, 23105, 5779, 0, 0, 0, 0 >>],
      [segment |-> << 18384, 17384, 17384, 17384, 17384 >>, neg |-> TRUE,
       mag |-> << 0, 13984, 29090, 25520, 4334, 0, 0, 0, 0 >>],
      [segment |-> << 17384, 15000, 17384, 15000, 17384 >>, neg |-> TRUE,
       mag |-> << 0, 32376, 18612, 22454, 1159, 0, 0, 0, 0 >>],
      [segment |-> << 18384, 16384, 15000, 16384, 15000 >>, neg |-> FALSE,
       mag |-> << 0, 6272, 15864, 2713, 5598, 0, 0, 0, 0 >>],
      [segment |-> << 17384, 16384, 15000, 16384, 15000 >>, neg |-> FALSE,
       mag |-> << 0, 12544, 31728, 5426, 11196, 0, 0, 0, 0 >>],
      [segment |-> << 18384, 17384, 16384, 17384, 15000 >>, neg |-> FALSE,
       mag |-> << 0, 28416, 31094, 6129, 3583, 1, 0, 0, 0 >>],
      [segment |-> << 18384, 16384, 15000, 15000, 18384 >>, neg |-> FALSE,
       mag |-> << 0, 0, 0, 0, 8192, 6299, 12002, 13638, 14 >>],
      [segment |-> << 18384, 16384, 15000, 15000, 17384 >>, neg |-> FALSE,
       mag |-> << 0, 0, 0, 0, 12288, 2800, 27966, 17057, 17 >>],
      [segment |-> << 16384, 18384, 15000, 17384, 17384 >>, neg |-> FALSE,
       mag |-> << 0, 0, 0, 0, 16384, 6863, 27009, 24780, 22 >>],
      [segment |-> << 17384, 16384, 16384, 15000, 18384 >>, neg |-> FALSE,
       mag |-> << 0, 0, 0, 0, 24576, 7836, 9530, 25082, 24 >>],
      [segment |-> << 17384, 17384, 16384, 16384, 17384 >>, neg |-> FALSE,
       mag |-> << 0, 0, 0, 0, 12288, 17336, 19561, 18515, 26 >>],
      [segment |-> << 18384, 18384, 15000 >>, neg |-> FALSE,
       mag |-> << 0, 0, 0, 0, 20480, 26468, 20765, 19129, 30 >>],
      [segment |-> << 17384, 16384, 16384, 15000, 17384 >>, neg |-> FALSE,
       mag |-> << 0, 0, 0, 0, 8192, 28652, 7251, 22388, 34 >>],
      [segment |-> << 17384, 17384, 16384, 15000, 18384 >>, neg |-> FALSE,
       mag |-> << 0, 0, 0, 0, 16384, 623, 3452, 15499, 38 >>],
      [segment |-> << 16384, 16384, 15000, 15000 >>, neg |-> FALSE,
       mag |-> << 0, 0, 0, 0, 24576, 32767, 32767, 32767, 44 >>],
      [segment |-> << 15000, 16384, 15000, 15000, 17384 >>, neg |-> FALSE,
       mag |-> << 0, 0, 0, 0, 0, 29296, 20122, 4923, 54 >>],
      [segment |-> << 18384, 17384, 16384, 16384, 15000 >>, neg |-> FALSE,
       mag |-> << 0, 0, 0, 0, 16384, 4746, 19171, 12023, 58 >>],
      [segment |-> << 18384, 16384, 16384, 15000, 15000 >>, neg |-> FALSE,
       mag |-> << 0, 0, 0, 0, 0, 25588, 15599, 222, 66 >>],
      [segment |-> << 15000, 17384, 16384, 15000, 18384 >>, neg |-> FALSE,
       mag |-> << 0, 0, 0, 0, 0, 15039, 26783, 16785, 75 >>],
      [segment |-> << 15000, 17384, 17384, 15000, 18384 >>, neg |-> FALSE,
       mag |-> << 0, 0, 0, 0, 0, 29296, 20122, 4923, 99 >>],
      [segment |-> << 16384, 18384, 17384, 15000 >>, neg |-> FALSE,
       mag |-> << 0, 0, 0, 0, 0, 27962, 17674, 15166, 106 >>],
      [segment |-> << 16384, 18384, 17384 >>, neg |-> FALSE,
       mag |-> << 0, 0, 0, 0, 16384, 17336, 19561, 18515, 116 >>],
      [segment |-> << 15000, 18384, 17384, 15000 >>, neg |-> FALSE,
       mag |-> << 0, 0, 0, 0, 16384, 19026, 11876, 5386, 125 >>],
      [segment |-> << 16384, 17384, 15000, 17384, 15000 >>, neg |-> FALSE,
       mag |-> << 0, 0, 0, 0, 0, 5931, 23214, 8619, 135 >>],
      [segment |-> << 15000, 18384, 18384, 15000, 15000 >>, neg |-> FALSE,
       mag |-> << 0, 0, 0, 0, 0, 11375, 8857, 20823, 144 >>],
      [segment |-> << 15000, 16384, 17384, 15000 >>, neg |-> FALSE,
       mag |-> << 0, 0, 0, 0, 0, 6139, 2468, 28287, 149 >>],
      [segment |-> << 15000, 16384, 18384, 15000 >>, neg |-> FALSE,
       mag |-> << 0, 0, 0, 0, 0, 6863, 27009, 24780, 157 >>],
      [segment |-> << 15000, 17384, 18384, 16384, 15000 >>, neg |-> FALSE,
       mag |-> << 0, 0, 0, 0, 0, 13273, 16833, 5077, 168 >>]
    }

PhaseSegments == { e.segment : e \in PhaseTable }

(* phi * 180.0 / math.pi for a segment of the table *)
PhaseDegrees(segment) ==
    LET e == CHOOSE e \in PhaseTable : e.segment = segment
    IN  [neg |-> e.neg, mag |-> e.mag]

FIsZero(x) == TopLimb(x.mag, Len(x.mag)) = 0

F360 == FFromInt(360)
F45 == FFromInt(45)

(* x % 360.0 with no sign fix-up: C's fmod, for |x| < 720 *)
Fmod360(x) ==
    IF BigCmp(x.mag, F360.mag) >= 0
    THEN [neg |-> x.neg, mag |-> Trim(BigSub(x.mag, F360.mag), FracLimbs + 1)]
    ELSE x

(* Python's x % 360.0: fmod, then 360.0 is added to a negative remainder,  *)
(* which rounds; a zero remainder is +0.0.                                 *)
PyMod360(x) ==
    LET mod == Fmod360(x)
    IN  IF FIsZero(mod) THEN FFromInt(0)
        ELSE IF mod.neg THEN FAdd(mod, F360)
        ELSE mod

(* int(v // 90.0) for 0 <= v < 360: v less its fmod by 90.0 is a whole     *)
(* multiple of 90 and the division is exact.                               *)
FloorDiv90(v) == Cardinality({ k \in 1 .. 3 : BigCmp(v.mag, FFromInt(90 * k).mag) >= 0 })

measure_phase(segment) ==
    LET deg == PyMod360(PhaseDegrees(segment))
        quadrant == FloorDiv90(PyMod360(FAdd(deg, F45))) + 1
    IN  [status |-> "ok", deg |-> deg, quadrant |-> quadrant]

InitPhase ==
    /\ \E segment \in PhaseSegments :
           call = [fn |-> "measure_phase", segment |-> segment, blanking_ire |-> 16384]
    /\ ret = NoRet
    /\ io = NoIo
    /\ tbcLen = 0

CallMeasurePhase ==
    /\ call.fn = "measure_phase"
    /\ ret = NoRet
    /\ ret' = measure_phase(call.segment)
    /\ UNCHANGED <<call, tbcLen, io>>

NextPhase == CallMeasurePhase

SpecPhase == InitPhase /\ [][NextPhase]_vars

(***************************************************************************)
(* archive/vits-investigation/analyze_vits_timing.py: analyze_line, the    *)
(* transition scan.                                                        *)
(***************************************************************************)
threshold == 128

RECURSIVE ScanNoUpdate(_, _, _)
ScanNoUpdate(line_data, i, prev_above) ==
    IF i >= Len(line_data) THEN << >>
    ELSE LET above == line_data[i + 1] >= threshold
         IN  IF above # prev_above
             THEN << << i, above, line_data[i + 1] >> >>
                  \o ScanNoUpdate(line_data, i + 1, prev_above)
             ELSE ScanNoUpdate(line_data, i + 1, prev_above)

(* for i in range(len(line_data)): the entries appended from index i on,   *)
(* each (i, above, line_data[i]).                                          *)
RECURSIVE Scan(_, _, _)
Scan(line_data, i, prev_above) ==
    IF i >= Len(line_data) THEN << >>
    ELSE LET above == line_data[i + 1] >= threshold
         IN  IF above # prev_above
             THEN << << i, above, line_data[i + 1] >> >> \o Scan(line_data, i + 1, above)
             ELSE Scan(line_data, i + 1, prev_above)

Transitions(line_data) == Scan(line_data, 0, FALSE)

(* Lines of up to MaxScanLen samples at levels on both sides of, and at,   *)
(* the threshold.                                                          *)
MaxScanLen == 5

ScanLevels == { 0, threshold - 1, threshold, 40000 }

ScanLines == UNION { [1 .. n -> ScanLevels] : n \in 0 .. MaxScanLen }

InitScan ==
    /\ \E line_data \in ScanLines :
           call = [fn |-> "analyze_vits_timing.analyze_line", line_data |-> line_data]
    /\ ret = NoRet
    /\ io = NoIo
    /\ tbcLen = 0

CallTimingAnalyzeLine ==
    /\ call.fn = "analyze_vits_timing.analyze_line"
    /\ ret = NoRet
    /\ ret' = [status |-> "ok", transitions |-> Transitions(call.line_data)]
    /\ UNCHANGED <<call, tbcLen, io>>

NextScan == CallTimingAnalyzeLine

SpecScan == InitScan /\ [][NextScan]_vars

(***************************************************************************)
(* archive/vits-investigation/verify_vits_lines.py: read_tbc_file.  The    *)
(* file is held by its length; a slice of it is held by the byte range it  *)
(* covers, [start, end) in file offsets.                                   *)
(***************************************************************************)
samples_per_line == 1135
lines_per_field == 313
sample_size == 2
samples_per_frame == samples_per_line * lines_per_field * 2
bytes_per_frame == samples_per_frame * sample_size

(* frame_data[a:b] for frame_data = data[offset:offset + bytes_per_frame], *)
(* in file offsets.                                                        *)
FrameSlice(len, offset, a, b) ==
    LET frame_data == SliceRange(len, offset, offset + bytes_per_frame)
        rng == SliceRange(RangeLen(frame_data), a, b)
    IN  [start |-> frame_data.start + rng.start, end |-> frame_data.start + rng.end]

Field1Line(len, offset, line) ==
    LET line_start == line * samples_per_line * sample_size
        line_end == line_start + samples_per_line * sample_size
    IN  FrameSlice(len, offset, line_start, line_end)

Field2LineNoFieldOffset(len, offset, line) ==
    LET line_start == line * samples_per_line * sample_size
        line_end == line_start + samples_per_line * sample_size
    IN  FrameSlice(len, offset, line_start, line_end)

Field2Line(len, offset, line) ==
    LET line_start == (lines_per_field * samples_per_line * sample_size)
                          + (line * samples_per_line * sample_size)
        line_end == line_start + samples_per_line * sample_size
    IN  FrameSlice(len, offset, line_start, line_end)

(* One pass of the while loop: the (field1, field2) pair of the frame at   *)
(* offset, each a list of lines_per_field lines.                           *)
ParseFrame(len, offset) ==
    << [i \in 1 .. lines_per_field |-> Field1Line(len, offset, i - 1)],
       [i \in 1 .. lines_per_field |-> Field2Line(len, offset, i - 1)] >>

RECURSIVE ReadFramesFrom(_, _)
ReadFramesFrom(len, offset) ==
    IF offset + bytes_per_frame <= len
    THEN << ParseFrame(len, offset) >> \o ReadFramesFrom(len, offset + bytes_per_frame)
    ELSE << >>

read_tbc_file(len) == ReadFramesFrom(len, 0)

(* Files of up to MaxFrames whole frames followed by nothing, by a part of *)
(* a frame (a whole number of lines with or without one more byte), or by  *)
(* a frame short of one byte.                                              *)
MaxFrames == 2
MaxTailLines == 20

TbcFileLens ==
    { k * bytes_per_frame + j * samples_per_line * sample_size + e :
        k \in 0 .. MaxFrames, j \in 0 .. MaxTailLines, e \in 0 .. 1 }
      \cup { k * bytes_per_frame - 1 : k \in 1 .. (MaxFrames + 1) }

InitFrames ==
    /\ \E len \in TbcFileLens :
           /\ tbcLen = len
           /\ call = [fn |-> "verify_vits_lines.read_tbc_file"]
    /\ ret = NoRet
    /\ io = NoIo

CallReadTbcFile ==
    /\ call.fn = "verify_vits_lines.read_tbc_file"
    /\ ret = NoRet
    /\ ret' = [status |-> "ok", frames |-> read_tbc_file(tbcLen)]
    /\ UNCHANGED <<call, tbcLen, io>>

NextFrames == CallReadTbcFile

SpecFrames == InitFrames /\ [][NextFrames]_vars

(***************************************************************************)
(* scripts/generate_pal_yuv422_colorbars.py: generate_colorbar_frame_yuv422*)
(***************************************************************************)
bars_rgb_100_swapped ==
    << << 940, 940, 940 >>, << 64, 940, 940 >>, << 940, 940, 64 >>, << 64, 940, 64 >>,
       << 940, 64, 940 >>, << 940, 64, 64 >>, << 64, 64, 940 >>, << 64, 64, 64 >> >>

(* White, Yellow, Cyan, Green, Magenta, Red, Blue, Black *)
bars_rgb_100 ==
    << << 940, 940, 940 >>, << 940, 940, 64 >>, << 64, 940, 940 >>, << 64, 940, 64 >>,
       << 940, 64, 940 >>, << 940, 64, 64 >>, << 64, 64, 940 >>, << 64, 64, 64 >> >>

F0_75 == FDivInt(3, 4)

(* 64 + int(0.75 * (c - 64)) *)
Scale75(c) == 64 + FInt(FMul(F0_75, FFromInt(c - 64)))

(* bars_rgb for saturation 75 and for any other saturation *)
bars_rgb_75 ==
    [k \in 1 .. 8 |-> << Scale75(bars_rgb_100[k][1]), Scale75(bars_rgb_100[k][2]),
                         Scale75(bars_rgb_100[k][3]) >>]

(* [rgb_to_ycbcr_bt601(r, g, b) for r, g, b in bars_rgb] *)
bars_yuv_75 ==
    [k \in 1 .. 8 |->
        rgb_to_ycbcr_bt601(bars_rgb_75[k][1], bars_rgb_75[k][2], bars_rgb_75[k][3])]

bars_yuv_100 ==
    [k \in 1 .. 8 |->
        rgb_to_ycbcr_bt601(bars_rgb_100[k][1], bars_rgb_100[k][2], bars_rgb_100[k][3])]

BarsYuv(saturation_percent) ==
    IF saturation_percent = 75 THEN bars_yuv_75 ELSE bars_yuv_100

(* min(x // bar_width, 7) *)
BarIndex(x, bar_width) == Min(x \div bar_width, 7)

(* The eight bytes packed for the pixel pair at x, x + 1. *)
BarPair(x, bar_width, bars_yuv) ==
    LET c0 == bars_yuv[BarIndex(x, bar_width) + 1]
        c1 == bars_yuv[BarIndex(x + 1, bar_width) + 1]
        cb_avg == (c0[2] + c1[2] + 1) \div 2
        cr_avg == (c0[3] + c1[3] + 1) \div 2
    IN  PackHHHH(c0[1], cb_avg, c1[1], cr_avg)

(* The rows of the frame, each of width // 2 pairs, byte by byte. *)
BarFrame(width, height, bar_width, bars_yuv) ==
    LET pairs == width \div 2
    IN  [i \in 1 .. (height * pairs * 8) |->
            BarPair(2 * (((i - 1) \div 8) % pairs), bar_width, bars_yuv)[((i - 1) % 8) + 1]]

generate_colorbar_frame_yuv422(width, height, saturation_percent) ==
    IF width % 2 # 0 THEN [status |-> "raise", error |-> "ValueError"]
    ELSE LET bar_width == width \div 8
         IN  IF bar_width = 0 /\ height > 0 /\ width > 0
             THEN [status |-> "raise", error |-> "ZeroDivisionError"]
             ELSE [status |-> "ok",
                   value |-> BarFrame(width, height, bar_width, BarsYuv(saturation_percent))]

(* Frames of the PAL width and of every width up to MaxBarWidth, of up to  *)
(* MaxBarHeight rows, at both saturations.                                 *)
MaxBarWidth == 40
MaxBarHeight == 2

BarCalls ==
    { [fn |-> "generate_colorbar_frame_yuv422", width |-> w, height |-> h,
       saturation_percent |-> s] :
        w \in (0 .. MaxBarWidth) \cup { 720 }, h \in 0 .. MaxBarHeight, s \in { 75, 100 } }

InitBars ==
    /\ call \in BarCalls
    /\ ret = NoRet
    /\ io = NoIo
    /\ tbcLen = 0

CallGenerateColorbarFrameYuv422 ==
    /\ call.fn = "generate_colorbar_frame_yuv422"
    /\ ret = NoRet
    /\ ret' = generate_colorbar_frame_yuv422(call.width, call.height, call.saturation_percent)
    /\ UNCHANGED <<call, tbcLen, io>>

NextBars == CallGenerateColorbarFrameYuv422

SpecBars == InitBars /\ [][NextBars]_vars

(***************************************************************************)
(* verify_vits.py: to_mv, the millivolt conversion inside analyze_line.    *)
(***************************************************************************)
F1203_3 == FDivInt(12033, 10)
F300 == FFromInt(300)

(* (val / 65535.0) * 1203.3 - 300.0 *)
to_mv(val) == FSub(FMul(FDivInt(val, 65535), F1203_3), F300)

(* 16-bit sample values: an even grid of MaxMvStep steps over the range,   *)
(* its top, and the levels 0x4000, 0x6000 and 0xE000 the function names.   *)
MaxMvStep == 64

MvSamples ==
    { (65535 * k) \div MaxMvStep : k \in 0 .. MaxMvStep } \cup { 16384, 24576, 57344 }

InitMv ==
    /\ \E val \in MvSamples : call = [fn |-> "to_mv", val |-> val]
    /\ ret = NoRet
    /\ io = NoIo
    /\ tbcLen = 0

CallToMv ==
    /\ call.fn = "to_mv"
    /\ ret = NoRet
    /\ ret' = [status |-> "ok", mv |-> to_mv(call.val)]
    /\ UNCHANGED <<call, tbcLen, io>>

NextMv == CallToMv

SpecMv == InitMv /\ [][NextMv]_vars

(***************************************************************************)
(* scripts/convert_mov_to_yuv422_ntsc.py: extract_frame_to_yuv422, from    *)
(* the decoded planar frame (the content of the temporary file) to the     *)
(* bytes written and the value returned.                                   *)
(***************************************************************************)
(* actual_height = target_height if the buffer divides into lines of that  *)
(* many rows, reported_height otherwise; actual_width from the length.     *)
ExtractDims(len, reported_height, target_height) ==
    LET first_width == len \div (4 * target_height)
    IN  IF first_width * target_height * 4 # len
        THEN [actual_width |-> len \div (4 * reported_height),
              actual_height |-> reported_height]
        ELSE [actual_width |-> first_width, actual_height |-> target_height]

ntsc_extract_frame_to_yuv422(yuv_data, reported_width, reported_height, target_width, target_height) ==
    LET dims == ExtractDims(Len(yuv_data), reported_height, target_height)
        actual_width == dims.actual_width
        actual_height == dims.actual_height
        converted == convert_yuv422p10le_to_yuyv10bit(yuv_data, actual_width, actual_height)
        padded == IF actual_width < target_width
                  THEN pad_to_target_width(converted, actual_width, target_width,
                                           actual_height)
                  ELSE converted
        yuyv_packed == AdjustHeight(padded, actual_height, target_width, target_height)
        output_size == Len(yuyv_packed)
        expected_output_size == target_width * target_height * 4
    IN  [status |-> "ok", value |-> output_size = expected_output_size,
         written |-> yuyv_packed,
         actual_width |-> actual_width, actual_height |-> actual_height]

(* Decoded frames of the reported geometry (whole, cut short or longer),   *)
(* heights up to MaxHeight + 2, and targets at, below and above them.      *)
ExtractCalls ==
    UNION { { [fn |-> "ntsc.extract_frame_to_yuv422", yuv_data |-> yuv_data,
               reported_width |-> reported_width, reported_height |-> reported_height,
               target_width |-> target_width, target_height |-> target_height] :
                yuv_data \in PlanarBuffers(reported_width, reported_height),
                target_width \in 1 .. (MaxWidth + 2),
                target_height \in 1 .. (MaxHeight + 2) } :
            reported_width \in 1 .. MaxWidth, reported_height \in 1 .. (MaxHeight + 2) }

InitExtract ==
    /\ call \in ExtractCalls
    /\ ret = NoRet
    /\ io = NoIo
    /\ tbcLen = 0

CallNtscExtractFrame ==
    /\ call.fn = "ntsc.extract_frame_to_yuv422"
    /\ ret = NoRet
    /\ ret' = ntsc_extract_frame_to_yuv422(call.yuv_data, call.reported_width,
                                           call.reported_height, call.target_width,
                                           call.target_height)
    /\ UNCHANGED <<call, tbcLen, io>>

NextExtract == CallNtscExtractFrame

SpecExtract == InitExtract /\ [][NextExtract]_vars

(***************************************************************************)
(* scripts/convert_mov_to_yuv422_ntsc.py and convert_mov_to_yuv422_pal.py: *)
(* extract_frame_to_yuv422 as a sequence of steps over the file system.    *)
(* call.at is the position in the function; io holds whether the temporary *)
(* file output_file + ".tmp.yuv" and the output file exist, and whether    *)
(* the decoder has been started.  The two variants differ in the           *)
(* conversion step only, which touches no file.                            *)
(***************************************************************************)
ExtractVariants == { "ntsc.extract_frame_to_yuv422.steps", "pal.extract_frame_to_yuv422.steps" }

RemoveSkipped(temp_exists) == { [temp_exists |-> temp_exists, raised |-> FALSE] }

(* if os.path.exists(temp_yuv): os.remove(temp_yuv) -- os.remove deletes   *)
(* the file or raises OSError and leaves it.                               *)
RemoveIfExists(temp_exists) ==
    IF temp_exists
    THEN { [temp_exists |-> FALSE, raised |-> FALSE], [temp_exists |-> TRUE, raised |-> TRUE] }
    ELSE { [temp_exists |-> FALSE, raised |-> FALSE] }

At(pc) == call.fn \in ExtractVariants /\ call.at = pc /\ ret = NoRet

Goto(pc) == call' = [call EXCEPT !.at = pc]

(* An exception raised by the step at call.at reaches the except clause. *)
Raise == call' = [call EXCEPT !.at = "except", !.error = call.at]

Return(value) ==
    /\ ret' = [status |-> "return", value |-> value]
    /\ Goto("done")

InitSteps ==
    /\ \E fn \in ExtractVariants : call = [fn |-> fn, at |-> "start", error |-> "none"]
    /\ \E t \in BOOLEAN, o \in BOOLEAN :
           io = [temp_exists |-> t, output_exists |-> o, invoked |-> FALSE]
    /\ ret = NoRet
    /\ tbcLen = 0

(* The input file is missing or get_video_info gives no dimensions:        *)
(* return False before the try block; otherwise go on to the decoder.      *)
CheckInput ==
    /\ At("start")
    /\ \/ Return(FALSE) /\ UNCHANGED io
       \/ Goto("decode") /\ UNCHANGED <<io, ret>>
    /\ UNCHANGED tbcLen

(* subprocess.run(cmd, ...): it raises (no ffmpeg), or ffmpeg runs and     *)
(* ends with a non-zero or a zero return code; ffmpeg -y may create,       *)
(* replace or leave no temporary file.                                     *)
RunDecoder ==
    /\ At("decode")
    /\ \/ /\ Raise
          /\ io' = [io EXCEPT !.invoked = TRUE]
       \/ \E t \in BOOLEAN, next \in { "failed", "read" } :
            /\ Goto(next)
            /\ io' = [io EXCEPT !.invoked = TRUE, !.temp_exists = t]
    /\ UNCHANGED <<ret, tbcLen>>

(* result.returncode != 0: remove the temporary file, return False. *)
DecoderFailed ==
    /\ At("failed")
    /\ \E r \in RemoveIfExists(io.temp_exists) :
         /\ io' = [io EXCEPT !.temp_exists = r.temp_exists]
         /\ IF r.raised THEN Raise /\ UNCHANGED ret ELSE Return(FALSE)
    /\ UNCHANGED tbcLen

(* with open(temp_yuv, 'rb') as f: yuv_data = f.read() *)
ReadTemp ==
    /\ At("read")
    /\ IF io.temp_exists
       THEN Goto("convert") \/ Raise
       ELSE Raise
    /\ UNCHANGED <<io, ret, tbcLen>>

(* The dimensions from the length of the data and the conversion to YUYV:  *)
(* they finish or raise (a reported height of 0 divides by zero).          *)
ConvertFrame ==
    /\ At("convert")
    /\ Goto("pad") \/ Raise
    /\ UNCHANGED <<io, ret, tbcLen>>

(* The width padding, skipped when the frame is wide enough; the NTSC      *)
(* variant then adjusts the height, the PAL variant writes.                *)
PadWidth ==
    /\ At("pad")
    /\ \/ Goto(IF call.fn = "ntsc.extract_frame_to_yuv422.steps" THEN "adjust" ELSE "write")
       \/ Raise
    /\ UNCHANGED <<io, ret, tbcLen>>

(* NTSC: crop or pad the lines to target_height. *)
AdjustFrameHeight ==
    /\ At("adjust")
    /\ call.fn = "ntsc.extract_frame_to_yuv422.steps"
    /\ Goto("write") \/ Raise
    /\ UNCHANGED <<io, ret, tbcLen>>

(* with open(output_file, 'wb') as f: f.write(yuyv_packed) *)
WriteOutput ==
    /\ At("write")
    /\ \/ Goto("cleanup") /\ io' = [io EXCEPT !.output_exists = TRUE]
       \/ Raise /\ io' \in { io, [io EXCEPT !.output_exists = TRUE] }
    /\ UNCHANGED <<ret, tbcLen>>

(* Clean up temp file *)
CleanUp ==
    /\ At("cleanup")
    /\ \E r \in RemoveIfExists(io.temp_exists) :
         /\ io' = [io EXCEPT !.temp_exists = r.temp_exists]
         /\ IF r.raised THEN Raise ELSE Goto("compare")
    /\ UNCHANGED <<ret, tbcLen>>

(* output_size == expected_output_size: return True, else return False *)
CompareSize ==
    /\ At("compare")
    /\ \E value \in BOOLEAN : Return(value)
    /\ UNCHANGED <<io, tbcLen>>

(* except Exception: remove the temporary file and return False; an        *)
(* OSError of os.remove here leaves the function as an exception.          *)
ExceptHandler ==
    /\ At("except")
    /\ \E r \in RemoveIfExists(io.temp_exists) :
         /\ io' = [io EXCEPT !.temp_exists = r.temp_exists]
         /\ IF r.raised
            THEN ret' = [status |-> "raise", value |-> FALSE] /\ Goto("done")
            ELSE Return(FALSE)
    /\ UNCHANGED tbcLen

NextSteps ==
    \/ CheckInput
    \/ RunDecoder
    \/ DecoderFailed
    \/ ReadTemp
    \/ ConvertFrame
    \/ PadWidth
    \/ AdjustFrameHeight
    \/ WriteOutput
    \/ CleanUp
    \/ CompareSize
    \/ ExceptHandler

SpecSteps == InitSteps /\ [][NextSteps]_vars

(***************************************************************************)
(* C1: for PAL, frame_line_to_field_line maps every frame line L in 1..313 *)
(* asked for field 0 to field line L-1 and every L in 314..625 asked for   *)
(* field 1 to L-314, so that 19, 20, 332, 333 give the (field, line) pairs *)
(* verify_vits.py analyses, and returns no mapping for L < 1 and L > 625.  *)
(***************************************************************************)
C1_FrameLineMapping ==
    call.fn = "frame_line_to_field_line" =>
        LET L == call.frame_line
            f == call.field_num
        IN  /\ (L \in 1 .. 313 /\ f = 0) => ret.value = Some(L - 1)
            /\ (L \in 314 .. 625 /\ f = 1) => ret.value = Some(L - 314)
            /\ (L < 1 \/ L > 625) => ret.value = None
            /\ \A c \in VerifyVitsMainCalls :
                   (L = c.frame_line /\ f = c.field_num) => ret.value = Some(c.line_num)

C1_Witness ==
    /\ call.fn = "frame_line_to_field_line"
    /\ call.frame_line = 332
    /\ call.field_num = 1
    /\ ret.value = Some(18)

(* The field a frame line belongs to, as main() of verify_vits_lines.py    *)
(* picks it before asking for the field line.                              *)
FieldOf(L) == IF L <= 313 THEN 0 ELSE 1

(***************************************************************************)
(* C2 as stated: every frame line in 1..626 (2 * lines_per_field) resolves *)
(* to a field line of its field (lines 314..626 to frame_line - 313 - 1),  *)
(* and only frame lines outside 1..626 are invalid.                        *)
(***************************************************************************)
C2_Original ==
    call.fn = "frame_line_to_field_line" =>
        LET L == call.frame_line
            f == call.field_num
        IN  /\ (L \in 1 .. 313 /\ f = 0) => ret.value = Some(L - 1)
            /\ (L \in 314 .. 626 /\ f = 1) => ret.value = Some(L - 313 - 1)
            /\ (f = FieldOf(L) /\ ret.value = None) => L \notin 1 .. 626

(***************************************************************************)
(* C2 amended: a frame line asked for its own field resolves to a field    *)
(* line exactly when it lies in 1..625 (the 625 lines of a PAL frame);     *)
(* frame line 626 and everything else outside 1..625 is invalid.           *)
(***************************************************************************)
C2_ValidRange ==
    (call.fn = "frame_line_to_field_line" /\ call.field_num = FieldOf(call.frame_line)) =>
        LET L == call.frame_line
        IN  /\ (ret.value # None) <=> (L \in 1 .. 625)
            /\ (L \in 1 .. 625) => ret.value = Some(L - 1 - 313 * FieldOf(L))

C2_Witness ==
    /\ call.fn = "frame_line_to_field_line"
    /\ call.frame_line = 626
    /\ call.field_num = 1
    /\ ret.value = None

(***************************************************************************)
(* C3: analyze_line (PAL 1135 x 313), analyze_line (NTSC 910 x 263) and    *)
(* read_field_line_segment (geometry from its parameters) start reading at *)
(* byte (f * lines_per_field * samples_per_line + l * samples_per_line +   *)
(* s) * 2, with s = 0 for whole lines, and ask for exactly 2 bytes per     *)
(* requested sample.                                                       *)
(***************************************************************************)
C3_ReadOffsets ==
    LET f == call.field_num
        l == call.line_num
    IN  /\ call.fn = "verify_vits.analyze_line" =>
              /\ io.offset = (f * 313 * 1135 + l * 1135 + 0) * 2
              /\ io.want = 2 * 1135
        /\ call.fn = "verify_ntsc_vits.analyze_line" =>
              /\ io.offset = (f * 263 * 910 + l * 910 + 0) * 2
              /\ io.want = 2 * 910
        /\ call.fn = "read_field_line_segment" =>
              /\ io.offset = (f * call.height * call.width + l * call.width
                              + call.start) * 2
              /\ io.want = 2 * (call.end - call.start)

C3_Witness ==
    /\ call.fn = "read_field_line_segment"
    /\ call.field_num = 1
    /\ call.line_num = 2
    /\ call.start = 1
    /\ call.end = 3
    /\ call.width = 910
    /\ io.offset = 482302
    /\ ret.status = "ok"

(***************************************************************************)
(* C4 as stated: for every field index field_num >= 0 and line index,      *)
(* read_tbc_file_line reads the line starting at byte                      *)
(* field_num * 313 * 1135 * 2 + line_in_field * 1135 * 2, the line         *)
(* verify_vits.analyze_line reads for the same (field, line).              *)
(***************************************************************************)
C4_SameLineAsAnalyzeLine ==
    call.fn = "read_tbc_file_line" =>
        /\ io.offset = call.field_num * 313 * 1135 * 2 + call.line_num * 1135 * 2
        /\ io.offset = AnalyzeLineOffset(PAL_FIELD_WIDTH, PAL_FIELD_HEIGHT,
                                         call.field_num, call.line_num)

(***************************************************************************)
(* C5: when the file holds fewer bytes than the requested span from the    *)
(* computed offset, read_field_line_segment raises and returns no samples, *)
(* and analyze_line (PAL and NTSC) reports the error and computes no       *)
(* statistics; a partial line is never unpacked or measured.               *)
(***************************************************************************)
C5_ShortRead ==
    (/\ call.fn \in { "verify_vits.analyze_line", "verify_ntsc_vits.analyze_line",
                      "read_field_line_segment" }
     /\ Max(0, tbcLen - io.offset) < io.want) =>
        /\ ret.unpacked = 0
        /\ ret.stats = FALSE
        /\ ret.status = IF call.fn = "read_field_line_segment" THEN "raise" ELSE "error"

C5_Witness ==
    /\ call.fn = "verify_vits.analyze_line"
    /\ io.got > 0
    /\ io.got < io.want
    /\ ret.status = "error"
    /\ ret.stats = FALSE

(***************************************************************************)
(* C6: for every 0 <= blanking_level < white_level,                        *)
(* sample_to_ire(blanking_level, ...) = 0 and                              *)
(* sample_to_ire(white_level, ...) = 100.                                  *)
(***************************************************************************)
C6_IreEndpoints ==
    (/\ call.fn = "sample_to_ire"
     /\ 0 <= call.blanking_16b
     /\ call.blanking_16b < call.white_16b) =>
        /\ call.sample = call.blanking_16b =>
               (ret.status = "ok" /\ ret.num = 0)
        /\ call.sample = call.white_16b =>
               (ret.status = "ok" /\ ret.num = 100 * ret.den)

C6_Witness ==
    /\ call.fn = "sample_to_ire"
    /\ call.blanking_16b = 15360
    /\ call.white_16b = 49408
    /\ call.sample = call.white_16b
    /\ ret.num = 100 * ret.den

(***************************************************************************)
(* C7 as stated: whenever blanking_level >= white_level, sample_to_ire     *)
(* returns 0 for every sample value.                                       *)
(***************************************************************************)
C7_Original ==
    (call.fn = "sample_to_ire" /\ call.blanking_16b >= call.white_16b) =>
        (ret.status = "ok" /\ ret.num = 0)

(* The range sample_to_ire would divide by is zero: the sync range for a   *)
(* sample at or below blanking, the luma range for a sample above it.      *)
ZeroRange(s, b, w) == (s <= b /\ b = 0) \/ (s > b /\ w = b)

(***************************************************************************)
(* C7 amended: sample_to_ire never fails, and whenever the range it would  *)
(* divide by is zero (white_level = blanking_level for a sample above      *)
(* blanking, blanking_level = 0 for a sample at or below it) it returns 0; *)
(* in every other case, blanking_level > white_level included, it returns  *)
(* the linear value, which is 0 only at sample = blanking_level.           *)
(***************************************************************************)
C7_ZeroRangeGuard ==
    call.fn = "sample_to_ire" =>
        LET s == call.sample
            b == call.blanking_16b
            w == call.white_16b
        IN  /\ ret.status = "ok"
            /\ ZeroRange(s, b, w) => ret = IreZero
            /\ (ret.num = 0) <=> (ZeroRange(s, b, w) \/ s = b)

C7_Witness ==
    /\ call.fn = "sample_to_ire"
    /\ call.white_16b = call.blanking_16b
    /\ call.blanking_16b > 0
    /\ call.sample > call.blanking_16b
    /\ ret = IreZero


(* The 16-bit little-endian word at word index i (from 0) of a buffer. *)
WordAt(data, i) == data[2 * i + 1] + 256 * data[2 * i + 2]

ConvertCalls == { "ntsc.convert_yuv422p10le_to_yuyv10bit",
                  "pal.convert_yuv422p10le_to_yuyv10bit" }

(***************************************************************************)
(* C10: for even width and a planar buffer of exactly width*height*4       *)
(* bytes, convert_yuv422p10le_to_yuyv10bit returns width*height*4 bytes in *)
(* which pixel pair k of row r is the four words Y[r][2k], Cb[r][k],       *)
(* Y[r][2k+1], Cr[r][k], each the input word masked to its low 10 bits.    *)
(***************************************************************************)
C10_PlanarToYuyv ==
    (/\ call.fn \in ConvertCalls
     /\ call.width % 2 = 0
     /\ Len(call.yuv_data) = call.width * call.height * 4) =>
        LET w == call.width
            h == call.height
            in == call.yuv_data
            out == ret.data
        IN  /\ ret.status = "ok"
            /\ Len(out) = w * h * 4
            /\ \A i \in 0 .. (w * h * 2 - 1) : WordAt(out, i) <= 1023
            /\ \A r \in 0 .. (h - 1), k \in 0 .. ((w \div 2) - 1) :
                 LET o == 4 * (r * (w \div 2) + k)
                 IN  /\ WordAt(out, o) = WordAt(in, r * w + 2 * k) % 1024
                     /\ WordAt(out, o + 1) =
                            WordAt(in, w * h + r * (w \div 2) + k) % 1024
                     /\ WordAt(out, o + 2) = WordAt(in, r * w + 2 * k + 1) % 1024
                     /\ WordAt(out, o + 3) =
                            WordAt(in, w * h + (w \div 2) * h + r * (w \div 2) + k) % 1024

C10_Witness ==
    /\ call.fn \in ConvertCalls
    /\ call.width = 4
    /\ call.height = 2
    /\ Len(call.yuv_data) = 32
    /\ Len(ret.data) = 32
    /\ WordAt(call.yuv_data, 13) > 1023
    /\ WordAt(ret.data, 15) = WordAt(call.yuv_data, 15) % 1024


(***************************************************************************)
(* C8: rgb_to_ycbcr_bt601(940, 940, 940) = (940, 512, 512) and             *)
(* rgb_to_ycbcr_bt601(64, 64, 64) = (64, 512, 512).                        *)
(***************************************************************************)
C8_WhiteAndBlack ==
    (call.fn = "rgb_to_ycbcr_bt601" /\ ret # NoRet) =>
        /\ (call.r10 = 940 /\ call.g10 = 940 /\ call.b10 = 940) =>
               ret.value = << 940, 512, 512 >>
        /\ (call.r10 = 64 /\ call.g10 = 64 /\ call.b10 = 64) =>
               ret.value = << 64, 512, 512 >>

C8_Witness ==
    /\ call.fn = "rgb_to_ycbcr_bt601"
    /\ call.r10 = 940 /\ call.g10 = 940 /\ call.b10 = 940
    /\ ret = [value |-> << 940, 512, 512 >>]

(* floor(n / d + 1/2) for d > 0, in whole numbers *)
RoundHalfUp(n, d) ==
    LET q == n \div d
        rem == n - q * d
    IN  q + (IF 2 * rem >= d THEN 1 ELSE 0)

(* The exact values the conversion is described by.  With R, G, B the      *)
(* channels less 64: Yn*876 = (299R + 587G + 114B)/1000, and with the      *)
(* fraction 896/(876*31250) reduced to 112/(219*15625),                    *)
(* Cbn*896 = 112*(-5273R - 10352G + 15625B)/(219*15625) and                *)
(* Crn*896 = 112*(15625R - 13084G - 2541B)/(219*15625).                    *)
ExactYcbcr(r10, g10, b10) ==
    LET R == r10 - 64
        G == g10 - 64
        B == b10 - 64
        y == 64 + RoundHalfUp(299 * R + 587 * G + 114 * B, 1000)
        cb == 512 + RoundHalfUp(112 * (15625 * B - 5273 * R - 10352 * G), 219 * 15625)
        cr == 512 + RoundHalfUp(112 * (15625 * R - 13084 * G - 2541 * B), 219 * 15625)
    IN  << Max(64, Min(940, y)), Max(64, Min(960, cb)), Max(64, Min(960, cr)) >>

(***************************************************************************)
(* C9: for every r, g, b in 64..940, rgb_to_ycbcr_bt601 returns the exact  *)
(* BT.601 combinations scaled to 876 (luma) and 896 (chroma) steps, offset *)
(* by 64 and 512, rounded by adding one half and truncating, and clamped   *)
(* to 64..940 (y) and 64..960 (cb, cr).                                    *)
(***************************************************************************)
C9_ExactRoundHalfUp ==
    (/\ call.fn = "rgb_to_ycbcr_bt601"
     /\ ret # NoRet
     /\ \A v \in {call.r10, call.g10, call.b10} : v >= 64 /\ v <= 940) =>
        ret.value = ExactYcbcr(call.r10, call.g10, call.b10)


(* Whether the 16-bit word at word index i lies wholly inside a buffer. *)
HasWord(data, i) == 2 * i + 2 <= Len(data)

(* Whether pixel pair k of row r has all four of its samples in the input. *)
PairPresent(data, w, h, r, k) ==
    /\ HasWord(data, r * w + 2 * k)
    /\ HasWord(data, r * w + 2 * k + 1)
    /\ HasWord(data, w * h + r * (w \div 2) + k)
    /\ HasWord(data, w * h + (w \div 2) * h + r * (w \div 2) + k)

(* The four words of output pixel pair number p (from 0). *)
PairAt(data, p) ==
    << WordAt(data, 4 * p), WordAt(data, 4 * p + 1),
       WordAt(data, 4 * p + 2), WordAt(data, 4 * p + 3) >>

(***************************************************************************)
(* C11: given a planar buffer shorter than width*height*4 bytes (even      *)
(* width), convert_yuv422p10le_to_yuyv10bit still returns width*height*4   *)
(* bytes, and every pixel pair with a sample missing from the input is the *)
(* neutral pair Y=64, Cb=512, Y=64, Cr=512.                                *)
(***************************************************************************)
C11_ShortBufferNeutralFill ==
    (/\ call.fn \in ConvertCalls
     /\ call.width % 2 = 0
     /\ Len(call.yuv_data) < call.width * call.height * 4) =>
        /\ ret.status = "ok"
        /\ Len(ret.data) = call.width * call.height * 4
        /\ \A r \in 0 .. (call.height - 1), k \in 0 .. ((call.width \div 2) - 1) :
             ~PairPresent(call.yuv_data, call.width, call.height, r, k) =>
                 PairAt(ret.data, r * (call.width \div 2) + k) = << 64, 512, 64, 512 >>


(* Bit number bit (from 0, least significant first) of the little-endian   *)
(* bytes that start at byte offset off of a buffer.                        *)
BitAt(data, off, bit) == (data[off + (bit \div 8) + 1] \div (2 ^ (bit % 8))) % 2

(* The 10-bit field at bit offset shift of the 32-bit word number word of  *)
(* the 16-byte group at byte offset off.                                   *)
TenBits(data, off, word, shift) ==
    LET b(i) == BitAt(data, off, 32 * word + shift + i)
    IN  b(0) + 2 * b(1) + 4 * b(2) + 8 * b(3) + 16 * b(4) + 32 * b(5)
        + 64 * b(6) + 128 * b(7) + 256 * b(8) + 512 * b(9)

(* Pair j (0..2) of the group at off as (Y, Cb, Y, Cr), from the layout    *)
(* Cb0,Y0,Cr0 | Y1,Cb2,Y2 | Cr2,Y3,Cb4 | Y4,Cr4,Y5.                        *)
GroupPair(data, off, j) ==
    IF j = 0
    THEN << TenBits(data, off, 0, 10), TenBits(data, off, 0, 0),
            TenBits(data, off, 1, 0), TenBits(data, off, 0, 20) >>
    ELSE IF j = 1
    THEN << TenBits(data, off, 1, 20), TenBits(data, off, 1, 10),
            TenBits(data, off, 2, 10), TenBits(data, off, 2, 0) >>
    ELSE << TenBits(data, off, 3, 0), TenBits(data, off, 2, 20),
            TenBits(data, off, 3, 20), TenBits(data, off, 3, 10) >>

(* ceil(width / 48) * 128 *)
Stride(width) == ((width + 47) \div 48) * 128

TenBitFrame(planar) ==
    [i \in 1 .. Len(planar) |-> PackH(WordAt(planar, (i - 1) \div 2) % 1024)[2 - (i % 2)]]

(* The planar frame of a YUYV buffer: the Y plane, then Cb, then Cr. *)
Deinterleave(yuyv, w, h) ==
    LET word(n) ==
            IF n < w * h
            THEN WordAt(yuyv, 4 * (n \div 2) + 2 * (n % 2))
            ELSE IF n < w * h + (w \div 2) * h
            THEN WordAt(yuyv, 4 * (n - w * h) + 1)
            ELSE WordAt(yuyv, 4 * (n - w * h - (w \div 2) * h) + 3)
    IN  [i \in 1 .. (w * h * 4) |-> PackH(word((i - 1) \div 2))[2 - (i % 2)]]

(***************************************************************************)
(* C14: for a planar 4:2:2 frame P of 10-bit samples with even width, the  *)
(* v210 encoding of P passed through convert_v210_to_yuyv10bit gives byte  *)
(* for byte the YUYV buffer that convert_yuv422p10le_to_yuyv10bit gives    *)
(* for P, and de-interleaving that buffer reproduces every Y, Cb and Cr    *)
(* sample of P.                                                            *)
(***************************************************************************)
C14_RoundTrip ==
    (call.fn = "convert_v210_to_yuyv10bit" /\ ret # NoRet /\ call.width % 2 = 0) =>
        \A seed \in 0 .. MaxSeed :
            LET P == TenBitFrame(PlanarFrame(seed, call.width, call.height))
            IN  call.v210_data = PackV210(P, call.width, call.height, call.height) =>
                    /\ ret.data =
                           convert_yuv422p10le_to_yuyv10bit(P, call.width, call.height)
                    /\ Deinterleave(ret.data, call.width, call.height) = P

C14_Witness ==
    /\ call.fn = "convert_v210_to_yuyv10bit"
    /\ call.width = 8
    /\ call.height = 2
    /\ call.v210_data = PackV210(TenBitFrame(PlanarFrame(1, 8, 2)), 8, 2, 2)
    /\ ret # NoRet
    /\ Len(ret.data) = 64
    /\ Deinterleave(ret.data, 8, 2) = TenBitFrame(PlanarFrame(1, 8, 2))
    /\ WordAt(ret.data, 29) # WordAt(ret.data, 31)

PadRoutines == { "pad_to_target_width", "pad_to_720_width" }

(* The width a padding call starts from and the width it pads to. *)
PadFrom(c) == IF c.fn = "pad_to_720_width" THEN c.width ELSE c.current_width

PadTo(c) == IF c.fn = "pad_to_720_width" THEN 720 ELSE c.target_width

(***************************************************************************)
(* C15: for even W < even T, every height H and a YUYV buffer of W*H*4     *)
(* bytes, pad_to_target_width (pad_to_720_width with T = 720) returns      *)
(* T*H*4 bytes in which every line is floor((T-W)/4) neutral pairs         *)
(* (64,512,64,512), then the W/2 pairs of the input line unchanged and in  *)
(* order, then the remaining (T-W)/2 - floor((T-W)/4) neutral pairs; the   *)
(* right padding exceeds the left by 0 or 1 pair.                          *)
(***************************************************************************)
C15_SymmetricPadding ==
    (/\ call.fn \in PadRoutines
     /\ ret # NoRet
     /\ PadFrom(call) % 2 = 0 /\ PadTo(call) % 2 = 0
     /\ PadFrom(call) < PadTo(call)
     /\ Len(call.yuyv_data) = PadFrom(call) * call.height * 4) =>
        LET W == PadFrom(call)
            T == PadTo(call)
            left == (T - W) \div 4
            right == ((T - W) \div 2) - left
        IN  /\ ret.status = "ok"
            /\ Len(ret.data) = T * call.height * 4
            /\ right - left \in {0, 1}
            /\ \A line \in 0 .. (call.height - 1), p \in 0 .. ((T \div 2) - 1) :
                 PairAt(ret.data, line * (T \div 2) + p) =
                     IF p < left \/ p >= left + (W \div 2)
                     THEN << 64, 512, 64, 512 >>
                     ELSE PairAt(call.yuyv_data, line * (W \div 2) + (p - left))

C15_Witness ==
    /\ call.fn = "pad_to_target_width"
    /\ call.current_width = 2
    /\ call.target_width = 8
    /\ call.height = 2
    /\ Len(call.yuyv_data) = 16
    /\ ret # NoRet
    /\ Len(ret.data) = 64
    /\ PairAt(ret.data, 0) = << 64, 512, 64, 512 >>
    /\ PairAt(ret.data, 1) = PairAt(call.yuyv_data, 0)
    /\ PairAt(ret.data, 1) # << 64, 512, 64, 512 >>
    /\ PairAt(ret.data, 5) = PairAt(call.yuyv_data, 1)
    /\ PairAt(ret.data, 7) = << 64, 512, 64, 512 >>

(***************************************************************************)
(* C16: in the NTSC height adjustment applied to a YUYV frame whose lines  *)
(* are target_width pixels wide (whole pixel pairs, so an even width): if  *)
(* actual_height > target_height the result is the first target_height     *)
(* lines unchanged; if actual_height < target_height it is all             *)
(* actual_height lines unchanged followed by target_height - actual_height *)
(* lines of neutral pairs (64,512,64,512); either way the result has       *)
(* target_height lines and every sample is an input sample or neutral.     *)
(***************************************************************************)
C16_HeightAdjust ==
    (/\ call.fn = "extract_frame_to_yuv422.adjust_height"
     /\ ret # NoRet
     /\ call.width = call.target_width
     /\ call.target_width % 2 = 0
     /\ Len(call.yuyv_packed) = call.target_width * call.actual_height * 4) =>
        LET ppl == call.target_width \div 2
            kept == Min(call.actual_height, call.target_height)
        IN  /\ Len(ret.data) = call.target_width * call.target_height * 4
            /\ \A p \in 0 .. (kept * ppl - 1) :
                 PairAt(ret.data, p) = PairAt(call.yuyv_packed, p)
            /\ \A p \in (kept * ppl) .. (call.target_height * ppl - 1) :
                 PairAt(ret.data, p) = << 64, 512, 64, 512 >>

C16_Witness ==
    /\ call.fn = "extract_frame_to_yuv422.adjust_height"
    /\ call.width = 4 /\ call.target_width = 4
    /\ call.actual_height = 1 /\ call.target_height = 3
    /\ Len(call.yuyv_packed) = 16
    /\ ret # NoRet
    /\ Len(ret.data) = 48
    /\ PairAt(ret.data, 1) = PairAt(call.yuyv_packed, 1)
    /\ PairAt(ret.data, 1) # << 64, 512, 64, 512 >>
    /\ PairAt(ret.data, 5) = << 64, 512, 64, 512 >>

(***************************************************************************)
(* C17: analyze_line19 partitions the active region (samples 185..1106 of  *)
(* the line, 922 samples) into B2 = [0,92), B1 = [92,96), F = [96,132),    *)
(* D1 = [132,922): contiguous, pairwise disjoint, in that order, covering  *)
(* every active sample exactly once, the remainder going to D1.            *)
(***************************************************************************)
C17_Line19Partition ==
    (call.fn = "analyze_line19" /\ ret # NoRet /\ call.nsamples >= 1107) =>
        LET seg == ret.segments
            In(rng, i) == rng.start <= i /\ i < rng.end
        IN  /\ ret.active = [start |-> 185, end |-> 1107]
            /\ seg.b2 = [start |-> 0, end |-> 92]
            /\ seg.b1 = [start |-> 92, end |-> 96]
            /\ seg.f = [start |-> 96, end |-> 132]
            /\ seg.d1 = [start |-> 132, end |-> 922]
            /\ \A i \in 0 .. 921 :
                 Cardinality({ name \in {"b2", "b1", "f", "d1"} : In(seg[name], i) }) = 1

C17_Witness ==
    /\ call.fn = "analyze_line19"
    /\ call.nsamples = 1135
    /\ ret # NoRet
    /\ ret.status = "ok"
    /\ ret.segments.d1 = [start |-> 132, end |-> 922]

(***************************************************************************)
(* C18: for a D1 component of n samples the staircase analysis uses six    *)
(* sub-bands, band k (k = 0..4) being [k*floor(n/6), (k+1)*floor(n/6)) and *)
(* band 5 [5*floor(n/6), n): contiguous, disjoint, covering all n samples  *)
(* once, the first five of equal width, the last absorbing n mod 6.        *)
(***************************************************************************)
C18_StaircaseBands ==
    (call.fn = "analyze_line19" /\ ret # NoRet /\ ret.status = "ok") =>
        LET n == RangeLen(ret.segments.d1)
            q == n \div 6
            band(k) == ret.levels[k + 1]
        IN  /\ Len(ret.levels) = 6
            /\ \A k \in 0 .. 4 : band(k).start = k * q /\ band(k).end = (k + 1) * q
            /\ band(5).start = 5 * q /\ band(5).end = n
            /\ band(5).end - band(5).start = q + (n % 6)
            /\ \A i \in 0 .. (n - 1) :
                 Cardinality({ k \in 0 .. 5 : band(k).start <= i /\ i < band(k).end }) = 1

C18_Witness ==
    /\ call.fn = "analyze_line19"
    /\ ret # NoRet
    /\ ret.status = "ok"
    /\ RangeLen(ret.segments.d1) = 23
    /\ ret.levels[5].end = 15
    /\ ret.levels[6].end - ret.levels[6].start = 8

(***************************************************************************)
(* C19: with blanking = 0x4000 and white = 0xD000 the expected staircase   *)
(* level for k = 0..5 is floor(0x4000 + (0xD000 - 0x4000) * k / 5), i.e.   *)
(* 16384, 23756, 31129, 38502, 45875, 53248: within 1 of the exact value,  *)
(* blanking at k = 0, white at k = 5, and strictly increasing in k.        *)
(***************************************************************************)
C19_ExpectedLevels ==
    (/\ call.fn = "analyze_line19" /\ ret # NoRet /\ ret.status = "ok"
     /\ \A k \in 1 .. 6 : ret.levels[k].expected # None) =>
        LET e(k) == ret.levels[k + 1].expected[1]
        IN  /\ << e(0), e(1), e(2), e(3), e(4), e(5) >> =
                   << 16384, 23756, 31129, 38502, 45875, 53248 >>
            /\ \A k \in 0 .. 5 :
                 /\ e(k) = 16384 + ((53248 - 16384) * k) \div 5
                 /\ 5 * e(k) <= 5 * 16384 + (53248 - 16384) * k
                 /\ 5 * 16384 + (53248 - 16384) * k < 5 * (e(k) + 1)
            /\ e(0) = 16384 /\ e(5) = 53248
            /\ \A k \in 0 .. 4 : e(k) < e(k + 1)

C19_Witness ==
    /\ call.fn = "analyze_line19"
    /\ call.nsamples = 1135
    /\ ret # NoRet
    /\ ret.status = "ok"
    /\ ret.levels[2].expected = << 23756 >>
    /\ ret.levels[6].expected = << 53248 >>

(* Whether a non-negative float is below the whole number n. *)
FBelow(x, n) == BigCmp(x.mag, FFromInt(n).mag) < 0

(***************************************************************************)
(* C20: measure_phase returns a phase deg normalised to [0, 360) and       *)
(* quadrant = floor(((deg + 45) mod 360) / 90) + 1, always one of 1..4:    *)
(* 1 for deg in [315,360) or [0,45), 2 for [45,135), 3 for [135,225),      *)
(* 4 for [225,315).                                                        *)
(***************************************************************************)
C20_PhaseQuadrant ==
    (call.fn = "measure_phase" /\ ret # NoRet) =>
        /\ ~ret.deg.neg \/ FIsZero(ret.deg)
        /\ FBelow(ret.deg, 360)
        /\ ret.quadrant \in 1 .. 4
        /\ ret.quadrant =
               IF FBelow(ret.deg, 45) \/ ~FBelow(ret.deg, 315) THEN 1
               ELSE IF FBelow(ret.deg, 135) THEN 2
               ELSE IF FBelow(ret.deg, 225) THEN 3
               ELSE 4

(* Whether a call of a pixel-format routine names an odd frame width. *)
OddWidthCall(c) ==
    IF c.fn \in ConvertCalls
           \cup { "convert_v210_to_yuyv10bit", "pad_to_720_width",
                  "generate_colorbar_frame_yuv422" }
    THEN c.width % 2 = 1
    ELSE IF c.fn = "pad_to_target_width"
    THEN c.current_width % 2 = 1 \/ c.target_width % 2 = 1
    ELSE FALSE

(***************************************************************************)
(* C12: every pixel-format routine that takes a frame width                *)
(* (convert_yuv422p10le_to_yuyv10bit, convert_v210_to_yuyv10bit,           *)
(* pad_to_target_width / pad_to_720_width, generate_colorbar_frame_yuv422) *)
(* rejects an odd width with an invalid-geometry error and returns no      *)
(* output buffer.                                                          *)
(***************************************************************************)
C12_OddWidthRejected ==
    (OddWidthCall(call) /\ ret # NoRet) => ret.status = "raise"

(***************************************************************************)
(* C21: the transition scan of analyze_line (threshold 128, a sample is    *)
(* 'above' when it is >= 128, the state before the first sample is         *)
(* 'below') records an entry (i, direction, line[i]) exactly at the        *)
(* indices i where 'above' differs from its value at i-1; the entries are  *)
(* in strictly increasing index order, their directions strictly alternate *)
(* starting with rising, every rising entry has value >= 128 and every     *)
(* falling entry has value < 128.                                          *)
(***************************************************************************)
C21_TransitionScan ==
    (call.fn = "analyze_vits_timing.analyze_line" /\ ret # NoRet) =>
        LET line == call.line_data
            t == ret.transitions
            AboveAt(i) == IF i < 0 THEN FALSE ELSE line[i + 1] >= 128
            Crossings == { i \in 0 .. (Len(line) - 1) : AboveAt(i) # AboveAt(i - 1) }
        IN  /\ { t[k][1] : k \in 1 .. Len(t) } = Crossings
            /\ Len(t) = Cardinality(Crossings)
            /\ \A k \in 1 .. Len(t) : t[k][3] = line[t[k][1] + 1]
            /\ \A k \in 1 .. (Len(t) - 1) : t[k][1] < t[k + 1][1]
            /\ \A k \in 1 .. Len(t) : t[k][2] = (k % 2 = 1)
            /\ \A k \in 1 .. Len(t) :
                 IF t[k][2] THEN t[k][3] >= 128 ELSE t[k][3] < 128

C21_Witness ==
    /\ call.fn = "analyze_vits_timing.analyze_line"
    /\ call.line_data = << 0, 128, 40000, 127, 128 >>
    /\ ret # NoRet
    /\ ret.transitions = << << 1, TRUE, 128 >>, << 3, FALSE, 127 >>, << 4, TRUE, 128 >> >>

(***************************************************************************)
(* C22: read_tbc_file returns exactly floor(len(data) / (1135 * 313 * 2 *  *)
(* 2)) frames, discarding a trailing partial frame; in frame f, line i     *)
(* (0..312) of field k (0 or 1) is the 1135*2 bytes starting at byte       *)
(* offset f * bytes_per_frame + k * 313 * 1135 * 2 + i * 1135 * 2, so      *)
(* field 0's lines precede field 1's lines and the lines of all frames are *)
(* disjoint slices of the file in file order.                              *)
(***************************************************************************)
FrameLineRanges(frames) ==
    [n \in 1 .. (Len(frames) * 626) |->
        frames[((n - 1) \div 626) + 1][(((n - 1) % 626) \div 313) + 1][((n - 1) % 313) + 1]]

C22_FrameLayout ==
    (call.fn = "verify_vits_lines.read_tbc_file" /\ ret # NoRet) =>
        LET frames == ret.frames
            order == FrameLineRanges(frames)
        IN  /\ Len(frames) = tbcLen \div (1135 * 313 * 2 * 2)
            /\ \A f \in 1 .. Len(frames) :
                 /\ Len(frames[f]) = 2
                 /\ \A k \in 0 .. 1 :
                      /\ Len(frames[f][k + 1]) = 313
                      /\ \A i \in 0 .. 312 :
                           LET at == (f - 1) * (1135 * 313 * 2 * 2)
                                         + k * 313 * 1135 * 2 + i * 1135 * 2
                           IN  frames[f][k + 1][i + 1]
                                   = [start |-> at, end |-> at + 1135 * 2]
            /\ \A n \in 1 .. Len(order) : order[n].end <= tbcLen
            /\ \A n \in 1 .. (Len(order) - 1) : order[n].end <= order[n + 1].start

C22_Witness ==
    /\ call.fn = "verify_vits_lines.read_tbc_file"
    /\ ret # NoRet
    /\ tbcLen = 2 * 1421020 + 3 * 2270 + 1
    /\ Len(ret.frames) = 2
    /\ ret.frames[2][2][313] = [start |-> 2842040 - 2270, end |-> 2842040]

(***************************************************************************)
(* C23: in the 100% bar frame of generate_colorbar_frame_yuv422 with width *)
(* 720 (8 bars of 90 pixels), for every row the pixel pair at the centre   *)
(* of bar k (k = 0..7) carries Y0 = Y1 = y, Cb = cb, Cr = cr where         *)
(* (y, cb, cr) = rgb_to_ycbcr_bt601 of the k-th RGB triple in the order    *)
(* White, Yellow, Cyan, Green, Magenta, Red, Blue, Black; more generally   *)
(* pixel x belongs to bar min(x div (width div 8), 7) and every pixel pair *)
(* lying inside one bar carries exactly that bar's triple.                 *)
(***************************************************************************)
EbuBars ==
    << << 940, 940, 940 >>, << 940, 940, 64 >>, << 64, 940, 940 >>, << 64, 940, 64 >>,
       << 940, 64, 940 >>, << 940, 64, 64 >>, << 64, 64, 940 >>, << 64, 64, 64 >> >>

(* The four 16-bit words of the pixel pair at x, x + 1 of a row. *)
FramePair(frame, width, row, x) ==
    LET at == (row * (width \div 2) + (x \div 2)) * 8
    IN  << UnpackH(frame, at), UnpackH(frame, at + 2),
           UnpackH(frame, at + 4), UnpackH(frame, at + 6) >>

BarOf(x, width) == Min(x \div (width \div 8), 7)

EbuYuv ==
    [k \in 0 .. 7 |->
        rgb_to_ycbcr_bt601(EbuBars[k + 1][1], EbuBars[k + 1][2], EbuBars[k + 1][3])]

C23_BarContent ==
    (/\ call.fn = "generate_colorbar_frame_yuv422"
     /\ call.saturation_percent = 100
     /\ ret # NoRet
     /\ ret.status = "ok") =>
        LET width == call.width
        IN  /\ Len(ret.value) = call.height * (width \div 2) * 8
            /\ \A row \in 0 .. (call.height - 1) :
                 /\ width = 720 =>
                      \A k \in 0 .. 7 :
                        FramePair(ret.value, width, row, 90 * k + 44)
                            = << EbuYuv[k][1], EbuYuv[k][2], EbuYuv[k][1], EbuYuv[k][3] >>
                 /\ \A p \in 0 .. ((width \div 2) - 1) :
                      BarOf(2 * p, width) = BarOf(2 * p + 1, width) =>
                        FramePair(ret.value, width, row, 2 * p)
                            = << EbuYuv[BarOf(2 * p, width)][1], EbuYuv[BarOf(2 * p, width)][2],
                                 EbuYuv[BarOf(2 * p, width)][1], EbuYuv[BarOf(2 * p, width)][3] >>

C23_Witness ==
    /\ call.fn = "generate_colorbar_frame_yuv422"
    /\ call.width = 720
    /\ call.height = 2
    /\ call.saturation_percent = 100
    /\ ret # NoRet
    /\ ret.status = "ok"
    /\ FramePair(ret.value, 720, 1, 90 + 44)
           = << EbuYuv[1][1], EbuYuv[1][2], EbuYuv[1][1], EbuYuv[1][3] >>
    /\ FramePair(ret.value, 720, 1, 90 + 44) # FramePair(ret.value, 720, 1, 44)

(***************************************************************************)
(* C24: read_tbc_file_line either returns exactly 1135 samples for the     *)
(* requested (field, line) or fails; when the file ends before the end of  *)
(* the requested line it never returns a shorter (or empty) sample         *)
(* sequence to the analysis.                                               *)
(***************************************************************************)
C24_FullLineOrFail ==
    (call.fn = "read_tbc_file_line" /\ ret.status = "ok") => ret.unpacked = 1135

(***************************************************************************)
(* C25: for every 0 < blanking_level < white_level and every sample >= 0,  *)
(* sample_to_ire returns -43 * (blanking_level - sample) / blanking_level  *)
(* (a value in [-43, 0]) when sample <= blanking_level and                 *)
(* 100 * (sample - blanking_level) / (white_level - blanking_level)        *)
(* otherwise; the result is non-decreasing in sample, the two branches     *)
(* agree (0) at sample = blanking_level, and no input with non-negative    *)
(* levels causes a division by zero.                                       *)
(***************************************************************************)
NatLimbs(n) == << n % LimbBase, n \div LimbBase >>

(* -1, 0, 1 as n1/d1 is below, equal to, above n2/d2 (d1, d2 > 0), by the  *)
(* cross products taken at full width.                                     *)
FracCmp(n1, d1, n2, d2) ==
    IF n1 < 0 /\ n2 >= 0 THEN -1
    ELSE IF n1 >= 0 /\ n2 < 0 THEN 1
    ELSE LET c == BigCmp(BigMul(NatLimbs(Abs(n1)), NatLimbs(d2)),
                         BigMul(NatLimbs(Abs(n2)), NatLimbs(d1)))
         IN  IF n1 < 0 THEN -c ELSE c

C25_IreLinear ==
    (call.fn = "sample_to_ire" /\ call.sample >= 0
        /\ call.blanking_16b >= 0 /\ call.white_16b >= 0) =>
        LET s == call.sample
            b == call.blanking_16b
            w == call.white_16b
        IN  /\ ret.status = "ok"
            /\ (0 < b /\ b < w) =>
                 /\ s <= b =>
                      /\ FracCmp(ret.num, ret.den, -43 * (b - s), b) = 0
                      /\ FracCmp(ret.num, ret.den, -43, 1) >= 0
                      /\ FracCmp(ret.num, ret.den, 0, 1) <= 0
                 /\ s > b => FracCmp(ret.num, ret.den, 100 * (s - b), w - b) = 0
                 /\ s = b =>
                      /\ ret.num = 0
                      /\ FracCmp(100 * (s - b), w - b, -43 * (b - s), b) = 0
                 /\ \A s2 \in LevelValues :
                      s <= s2 =>
                        LET r2 == sample_to_ire(s2, b, w)
                        IN  /\ r2.status = "ok"
                            /\ FracCmp(ret.num, ret.den, r2.num, r2.den) <= 0

C25_Witness ==
    /\ call.fn = "sample_to_ire"
    /\ call.blanking_16b = 15360
    /\ call.white_16b = 49408
    /\ call.sample = 3
    /\ ret.status = "ok"
    /\ ret.num = -43 * 15357
    /\ ret.den = 15360
    /\ sample_to_ire(16384, 15360, 49408) = [status |-> "ok", num |-> 102400, den |-> 34048]

(***************************************************************************)
(* C26: the PAL and NTSC variants of the width padder are the same         *)
(* operation: for every current width, every height and every input        *)
(* buffer, pad_to_720_width(buffer, width, height) returns the same bytes  *)
(* as pad_to_target_width(buffer, width, 720, height).                     *)
(***************************************************************************)
C26_SamePadder ==
    (call.fn = "pad_to_720_width" /\ ret # NoRet) =>
        ret.data = pad_to_target_width(call.yuyv_data, call.width, 720, call.height)

(* Whether the float x is within half a unit of the whole number n. *)
RoundsTo(x, n) == BigCmp(FSub(x, FFromInt(n)).mag, F0_5.mag) <= 0

(***************************************************************************)
(* C27: the millivolt conversion to_mv in verify_vits.analyze_line maps    *)
(* sample 0x0000 to -300 mV, sample 0x4000 to 0 mV and sample 0xE000 to    *)
(* 700 mV (each to the nearest millivolt).                                 *)
(***************************************************************************)
C27_MillivoltAnchors ==
    (call.fn = "to_mv" /\ ret # NoRet) =>
        /\ call.val = 0 => RoundsTo(ret.mv, -300)
        /\ call.val = 16384 => RoundsTo(ret.mv, 0)
        /\ call.val = 57344 => RoundsTo(ret.mv, 700)

(***************************************************************************)
(* C28: the NTSC extract_frame_to_yuv422 reports success (returns True)    *)
(* only if the written output is exactly target_width * target_height * 4  *)
(* bytes and every output line r < min(actual_height, target_height) is    *)
(* the left neutral padding, then the converted pairs of input line r,     *)
(* then the right neutral padding; it never reports success for an output  *)
(* whose lines are cut at a stride different from the input's line width.  *)
(***************************************************************************)
C28_SuccessMeansWholeLines ==
    (call.fn = "ntsc.extract_frame_to_yuv422" /\ ret # NoRet /\ ret.value) =>
        LET aw == ret.actual_width
            ah == ret.actual_height
            tw == call.target_width
            th == call.target_height
            pairs_to_add == IF aw < tw THEN (tw - aw) \div 2 ELSE 0
            left == Repeat(<< 64, 0, 0, 2, 64, 0, 0, 2 >>, pairs_to_add \div 2)
            right == Repeat(<< 64, 0, 0, 2, 64, 0, 0, 2 >>,
                            pairs_to_add - (pairs_to_add \div 2))
        IN  /\ Len(ret.written) = tw * th * 4
            /\ \A r \in 0 .. (Min(ah, th) - 1) :
                 Slice(ret.written, r * tw * 4, (r + 1) * tw * 4)
                     = left \o ConvertRow(call.yuv_data, aw, ah, r, (aw + 1) \div 2) \o right

(***************************************************************************)
(* C29: in the NTSC extract_frame_to_yuv422, whenever the decoded planar   *)
(* buffer has exactly reported_width * reported_height * 4 bytes, the      *)
(* dimensions used for conversion are the reported ones (actual_width =    *)
(* reported_width and actual_height = reported_height), so that            *)
(* actual_width * actual_height * 4 equals the buffer length.              *)
(***************************************************************************)
C29_ReportedDimensionsUsed ==
    (/\ call.fn = "ntsc.extract_frame_to_yuv422"
     /\ ret # NoRet
     /\ Len(call.yuv_data) = call.reported_width * call.reported_height * 4) =>
        /\ ret.actual_width = call.reported_width
        /\ ret.actual_height = call.reported_height
        /\ ret.actual_width * ret.actual_height * 4 = Len(call.yuv_data)

(***************************************************************************)
(* C30: in both extract_frame_to_yuv422 variants, once the decoder has     *)
(* been invoked, the temporary file output_file + '.tmp.yuv' does not      *)
(* exist when the function returns, on every return path: decoder failure, *)
(* an exception while reading, converting or writing, output size          *)
(* mismatch, and success.                                                  *)
(***************************************************************************)
C30_TempFileRemoved ==
    (call.fn \in ExtractVariants /\ io.invoked /\ ret # NoRet /\ ret.status = "return") =>
        ~io.temp_exists

C30_Witness ==
    /\ call.fn = "ntsc.extract_frame_to_yuv422.steps"
    /\ call.at = "done"
    /\ io.invoked
    /\ io.output_exists
    /\ ret # NoRet
    /\ ret.status = "return"
    /\ ret.value = TRUE
    /\ ~io.temp_exists
====
